---- MODULE Spec2Model ----
(***************************************************************************)
(* The optimistically-concurrent document store of infra/src/persistence.rs *)
(* and infra/src/documents.rs: in-memory documents carrying a DocMeta       *)
(* (id, version), saved through Documents::save inside one PostgreSQL       *)
(* transaction (READ COMMITTED) and read back through Documents::load.      *)
(*                                                                          *)
(* Every writer owns a connection of its own (postgres::Connection is used  *)
(* by one call at a time), so the steps of one save interleave with the     *)
(* steps of the other writers' calls at the statement boundaries:           *)
(*   SaveBegin   transaction(); read current_version; increment_version()   *)
(*   SaveExec    the INSERT or the UPDATE statement; rows == 0 => Err       *)
(*   SaveResume  an INSERT that waited for an in-flight insert of its key   *)
(*   SaveCommit  t.commit()                                                 *)
(* A transaction dropped without commit is rolled back.                     *)
(*                                                                          *)
(* The same calls made through an r2d2 pool (impl Storage for r2d2::Pool)   *)
(* check a connection out first and return it when the call ends; a         *)
(* document may carry a MailBox, stored with the rest of its body.          *)
(***************************************************************************)
EXTENDS Integers, Sequences, FiniteSets, TLC

\* ------------------------------------------------------------------ bounds
\* The in-memory versions a save is started from, in Spec.
MaxVersion == 4
\* ... and in SpecDocs, where several documents are in play.
MaxVersionDocs == 1

\* The connections in play, each used by one caller.
Writers == {"w1", "w2"}
\* The identifiers IdGen::generate handed out to the documents in play.
DocIds == {"x", "y"}
\* The one document all writers contend on in Spec.
OneDoc == {"x"}
\* The entity-specific field of ADocument (its name).
Names == {"Dave", "Version 2"}
\* The identifiers handed out to the ChattyDoc documents in play.
ChattyIds == {"c"}
\* The messages a MailBox<A> is sent; the A of ChattyDoc is the unit AMessage.
Messages == {"m1", "m2", "m3"}
AMessage == "AMessage"
\* The sends made into one mailbox, in SpecMailBox.
MaxSends == 4
\* ... in SpecPair, where the two documents differ by their ids alone.
MaxVersionPair == 3
\* The in-memory versions a save is started from, in SpecChatty.
MaxVersionChatty == 2
\* ... and in SpecPool.
MaxVersionPool == 2
\* The connections of the pool: r2d2::Pool::builder().max_size(2).
Connections == {"c1", "c2"}
\* The identifiers of polls that requests address, and the one of them that
\* IdGen::generate hands to CreatePoll; no poll is ever created as "q".
PollIds == {"p", "q"}
CreatedPollIds == {"p"}
\* The identifier Subjects::call(CreateSubject) makes a subject with.
CreatedSubjectIds == {"s1"}
\* The name CreatePoll is given.
PollNames == {"Canary Poll"}
\* The subjects that vote and what they choose.
Subjects == {"s1", "s2"}
Choices == {"Banana", "Chocolate"}
\* The in-memory versions a save is started from, in SpecPolls.
MaxVersionPolls == 3
\* ... and in SpecPollsFaults, where the statements of the store may fail.
MaxVersionFaults == 2
\* Versions of the document that writers race to save under fair scheduling.
MaxVersionRace == 3
\* ... and in SpecSubjects, where subjects and polls share the table.
MaxVersionSubjects == 2
\* ... and where callers set the versions of their documents.
MaxVersionForged == 3

\* Result<T, E>, and a call that unwinds instead of returning.
Ok(v) == [tag |-> "Ok", val |-> v]
Err(e) == [tag |-> "Err", val |-> e]
Panic == [tag |-> "Panic", val |-> "panic"]

\* Option<T>: None is the empty sequence, Some(x) the one-element sequence.
None == <<>>
Some(x) == <<x>>

\* ------------------------------------------------------------ identifiers
\* src/ids.rs and src/untyped_ids.rs.  A u64 is its 64 bits, most significant
\* first; a str is the sequence of its UTF-8 bytes; a byte is in 0..255.

\* The bits of a number below 2^w, most significant first.
Bits(n, w) == [k \in 1..w |-> (n \div 2^(w - k)) % 2]

\* The number a sequence of bits stands for (at most 16 bits are asked for):
\* that of its first half, shifted, and that of its second half.
RECURSIVE BitsValue(_)
BitsValue(bs) ==
    IF Len(bs) = 0 THEN 0
    ELSE IF Len(bs) = 1 THEN bs[1]
    ELSE BitsValue(SubSeq(bs, 1, Len(bs) \div 2)) * 2^(Len(bs) - Len(bs) \div 2)
         + BitsValue(SubSeq(bs, Len(bs) \div 2 + 1, Len(bs)))

\* The u64 with the four 16-bit limbs l3 l2 l1 l0, l3 the most significant.
U64(l3, l2, l1, l0) == Bits(l3, 16) \o Bits(l2, 16) \o Bits(l1, 16) \o Bits(l0, 16)

\* The bits of a sequence of bytes, and the bytes of a sequence of bits.
BytesToBits(bytes) ==
    SubSeq([k \in 1..(8 * Len(bytes)) |->
                Bits(bytes[((k - 1) \div 8) + 1], 8)[((k - 1) % 8) + 1]],
           1, 8 * Len(bytes))
BitsToBytes(bits) ==
    SubSeq([k \in 1..(Len(bits) \div 8) |->
                BitsValue(SubSeq(bits, 8 * (k - 1) + 1, 8 * k))],
           1, Len(bits) \div 8)

\* The printable ASCII characters but the grave accent: from the space (32)
\* to the underscore (95), and from a (97) to the tilde (126).
AsciiFrom32 ==
    <<" ", "!", "\"", "#", "$", "%", "&", "'", "(", ")", "*", "+", ",", "-",
      ".", "/", "0", "1", "2", "3", "4", "5", "6", "7", "8", "9", ":", ";",
      "<", "=", ">", "?", "@", "A", "B", "C", "D", "E", "F", "G", "H", "I",
      "J", "K", "L", "M", "N", "O", "P", "Q", "R", "S", "T", "U", "V", "W",
      "X", "Y", "Z", "[", "\\", "]", "^", "_">>
AsciiFrom97 ==
    <<"a", "b", "c", "d", "e", "f", "g", "h", "i", "j", "k", "l", "m", "n",
      "o", "p", "q", "r", "s", "t", "u", "v", "w", "x", "y", "z", "{", "|",
      "}", "~">>
Code(c) ==
    IF \E k \in 1..Len(AsciiFrom32) : AsciiFrom32[k] = c
    THEN 31 + CHOOSE k \in 1..Len(AsciiFrom32) : AsciiFrom32[k] = c
    ELSE 96 + CHOOSE k \in 1..Len(AsciiFrom97) : AsciiFrom97[k] = c
\* The str written as a sequence of ASCII characters.
Str(chars) == SubSeq([k \in 1..Len(chars) |-> Code(chars[k])], 1, Len(chars))

\* Ord of [u8] and of str: bytewise, a proper prefix being the smaller.
BytesLess(x, y) ==
    \/ \E k \in 1..Len(x) :
        /\ k <= Len(y)
        /\ x[k] < y[k]
        /\ \A j \in 1..(k - 1) : x[j] = y[j]
    \/ /\ Len(x) < Len(y)
       /\ \A j \in 1..Len(x) : x[j] = y[j]

\* Ord of u64.
U64Less(a, b) ==
    \E k \in 1..64 : a[k] < b[k] /\ \A j \in 1..(k - 1) : a[j] = b[j]

\* u64::wrapping_add: the sum modulo 2^64, by 16-bit limbs with their carries.
Add64(a, b) ==
    LET l0 == BitsValue(SubSeq(a, 49, 64)) + BitsValue(SubSeq(b, 49, 64))
        l1 == BitsValue(SubSeq(a, 33, 48)) + BitsValue(SubSeq(b, 33, 48))
                  + l0 \div 65536
        l2 == BitsValue(SubSeq(a, 17, 32)) + BitsValue(SubSeq(b, 17, 32))
                  + l1 \div 65536
        l3 == BitsValue(SubSeq(a, 1, 16)) + BitsValue(SubSeq(b, 1, 16))
                  + l2 \div 65536
    IN  U64(l3 % 65536, l2 % 65536, l1 % 65536, l0 % 65536)

\* a + b does not fit a u64: the wrapped sum is below a.
Add64Overflows(a, b) == U64Less(Add64(a, b), a)

\* a << n, the bits shifted out dropped.
ShiftLeft64(a, n) == SubSeq(a, n + 1, 64) \o [k \in 1..n |-> 0]

\* u64::checked_mul, the multiplier taken bit by bit from its lowest (bit k
\* is b[64 - k]): Some(product), or None once a shifted copy of a or a partial
\* sum does not fit, which is when the product does not.
RECURSIVE CheckedMulFrom(_, _, _, _)
CheckedMulFrom(a, b, k, acc) ==
    IF k = 64 THEN Some(acc)
    ELSE IF b[64 - k] = 0 THEN CheckedMulFrom(a, b, k + 1, acc)
    ELSE IF (\E j \in 1..k : a[j] = 1) \/ Add64Overflows(acc, ShiftLeft64(a, k))
    THEN None
    ELSE CheckedMulFrom(a, b, k + 1, Add64(acc, ShiftLeft64(a, k)))
CheckedMul(a, b) == CheckedMulFrom(a, b, 0, U64(0, 0, 0, 0))

\* DIVIDER and ENCODED_BARE_ID_LEN.
DIVIDER == "."
ENCODED_BARE_ID_LEN == 26

\* struct UntypedId { stamp: u64, random: u64 }.
UntypedIdOf(stamp, random) == [stamp |-> stamp, random |-> random]

\* #[derive(PartialOrd, Ord)] on UntypedId: by stamp, then by random.
UntypedLess(a, b) ==
    \/ U64Less(a.stamp, b.stamp)
    \/ a.stamp = b.stamp /\ U64Less(a.random, b.random)

\* #[derive(Hash)] on UntypedId: what it writes into the Hasher.
UntypedHash(u) == <<u.stamp, u.random>>

\* SystemTime::now().duration_since(SystemTime::UNIX_EPOCH): the Duration
\* since the epoch, whole seconds (a u64) and nanoseconds of the second (below
\* 1000,000,000), or the error of a clock that is before the epoch.
Since(secs, nanos) == Ok([secs |-> secs, nanos |-> nanos])
BeforeEpoch == Err("SystemTimeError")

\* 1000 * 1000 * 1000
NanosPerSec == U64(0, 0, 15258, 51712)

\* IdGen::untyped with the clock reading now and the draw rnd of
\* rand::random(), in the given build:
\*   stamp_epoch = ...duration_since(UNIX_EPOCH).expect("now")
\*   stamp_s = stamp_epoch.as_secs().checked_mul(1000 * 1000 * 1000).expect(..)
\*   stamp_ms = stamp_epoch.subsec_nanos().into()
\*   stamp = stamp_s + stamp_ms
\* Both expects panic in every build; the last addition, when it overflows,
\* panics in a build with overflow checks and wraps in a build without.
IdGenUntyped(build, now, rnd) ==
    IF now.tag # "Ok" THEN Panic
    ELSE LET stamp_s == CheckedMul(now.val.secs, NanosPerSec)
             stamp_ms == now.val.nanos
         IN  IF stamp_s = None THEN Panic
             ELSE IF Add64Overflows(stamp_s[1], stamp_ms) /\ build = "debug" THEN Panic
             ELSE Ok(UntypedIdOf(Add64(stamp_s[1], stamp_ms), rnd))

\* u64::to_be_bytes and u64::from_be_bytes.
WriteU64BigEndian(v) == BitsToBytes(v)
ReadU64BigEndian(bytes) == BytesToBits(bytes)

\* The random part laid out before the stamp.
ToBytesRandomFirst(u) == WriteU64BigEndian(u.random) \o WriteU64BigEndian(u.stamp)

\* The two parts laid out with the least significant byte first.
ToBytesLittleEndian(u) ==
    [k \in 1..8 |-> WriteU64BigEndian(u.stamp)[9 - k]]
        \o [k \in 1..8 |-> WriteU64BigEndian(u.random)[9 - k]]

\* UntypedId::to_bytes and UntypedId::from_bytes.
ToBytes(u) == WriteU64BigEndian(u.stamp) \o WriteU64BigEndian(u.random)
FromBytes(bytes) ==
    UntypedIdOf(ReadU64BigEndian(SubSeq(bytes, 1, 8)),
                ReadU64BigEndian(SubSeq(bytes, 9, 16)))

\* data_encoding::BASE32_DNSSEC: the symbols 0-9a-v, five bits each, no
\* padding; decoding takes A-V for a-v and checks the trailing bits.
Symbols == Str(<<"0", "1", "2", "3", "4", "5", "6", "7", "8", "9", "a", "b",
                 "c", "d", "e", "f", "g", "h", "i", "j", "k", "l", "m", "n",
                 "o", "p", "q", "r", "s", "t", "u", "v">>)
TranslateFrom == Str(<<"A", "B", "C", "D", "E", "F", "G", "H", "I", "J", "K",
                       "L", "M", "N", "O", "P", "Q", "R", "S", "T", "U", "V">>)

\* Encoding::encode_len.
EncodeLen(len) == (8 * len + 4) \div 5

\* Encoding::encode_mut into a buffer of encode_len bytes.
Encode(bytes) ==
    LET bits == BytesToBits(bytes)
        n == EncodeLen(Len(bytes))
        padded == SubSeq([k \in 1..(5 * n) |->
                             IF k <= Len(bits) THEN bits[k] ELSE 0], 1, 5 * n)
    IN  SubSeq([k \in 1..n |->
                   Symbols[BitsValue(SubSeq(padded, 5 * (k - 1) + 1, 5 * k)) + 1]],
               1, n)

\* Encoding::decode_len: Err (here -1) for a length that leaves a whole
\* symbol of trailing bits.
DecodeLen(len) ==
    LET trail == (5 * len) % 8
    IN  IF len - (trail \div 5) # len THEN -1 ELSE (5 * len) \div 8

\* The value of a symbol, -1 for a byte that is none.
SymbolValue(b) ==
    IF \E k \in 1..Len(Symbols) : Symbols[k] = b
    THEN (CHOOSE k \in 1..Len(Symbols) : Symbols[k] = b) - 1
    ELSE IF \E k \in 1..Len(TranslateFrom) : TranslateFrom[k] = b
    THEN (CHOOSE k \in 1..Len(TranslateFrom) : TranslateFrom[k] = b) + 9
    ELSE -1

\* Encoding::decode_mut(input, output) with an output of outlen bytes:
\* assert_eq!(Ok(output.len()), self.decode_len(input.len())), then the
\* symbols, then the trailing bits.
DecodeMut(input, outlen) ==
    IF DecodeLen(Len(input)) # outlen THEN Panic
    ELSE IF \E k \in 1..Len(input) : SymbolValue(input[k]) = -1
    THEN Err("Symbol")
    ELSE LET bits == SubSeq([k \in 1..(5 * Len(input)) |->
                                Bits(SymbolValue(input[((k - 1) \div 5) + 1]), 5)
                                    [((k - 1) % 5) + 1]], 1, 5 * Len(input))
         IN  IF \E k \in (8 * outlen + 1)..Len(bits) : bits[k] = 1
             THEN Err("Trailing")
             ELSE Ok(BitsToBytes(SubSeq(bits, 1, 8 * outlen)))

\* str::is_char_boundary and str::split_at, which panics off a boundary.
IsCharBoundary(s, mid) ==
    \/ mid = 0
    \/ mid = Len(s)
    \/ mid < Len(s) /\ s[mid + 1] \notin 128..191
SplitAt(s, mid) ==
    IF IsCharBoundary(s, mid)
    THEN Ok(<<SubSeq(s, 1, mid), SubSeq(s, mid + 1, Len(s))>>)
    ELSE Panic

\* The entities of the identifier tests: struct Canary and struct Long.
Entities == {"Canary", "Long"}
EntityPREFIX(E) ==
    IF E = "Canary"
    THEN Str(<<"c", "a", "n", "a", "r", "y">>)
    ELSE Str(<<"p", "s", "e", "u", "d", "o", "p", "s", "e", "u", "d", "o",
               "h", "y", "p", "o", "p", "a", "r", "a", "t", "h", "y", "r",
               "o", "i", "d", "i", "s", "m">>)
DividerStr == Str(<<DIVIDER>>)

\* struct Id<T> { inner: UntypedId, phantom: PhantomData<T> }.
IdOf(E, u) == [inner |-> u, phantom |-> E]

\* Id::from_untyped, Id::untyped, UntypedId::typed, Id::from_bytes and
\* Id::to_bytes.
FromUntyped(E, u) == IdOf(E, u)
Untyped(id) == id.inner
Typed(E, u) == FromUntyped(E, u)
IdFromBytes(E, bytes) == IdOf(E, FromBytes(bytes))
IdToBytes(id) == ToBytes(id.inner)

\* IdGen::generate: the typed identifier of what untyped returns; it unwinds
\* when untyped does.
Generate(E, build, now, rnd) ==
    IF IdGenUntyped(build, now, rnd) = Panic THEN Panic
    ELSE Ok(FromUntyped(E, IdGenUntyped(build, now, rnd).val))

\* An equality that reads the stamp alone.
IdEqByStamp(a, b) == a.inner.stamp = b.inner.stamp

\* impl PartialEq, Ord and Hash for Id<T>: those of the inner UntypedId.
IdEq(a, b) == a.inner = b.inner
IdLess(a, b) == UntypedLess(a.inner, b.inner)
IdHash(id) == UntypedHash(id.inner)

\* impl Display for UntypedId.
UntypedToString(u) == Encode(ToBytes(u))

\* A display without the divider.
IdToStringNoDivider(id) == EntityPREFIX(id.phantom) \o Encode(IdToBytes(id))

\* impl Display for Id<T>: "{}{}{}" of T::PREFIX, DIVIDER and the encoded bytes.
IdDisplay(id) == EntityPREFIX(id.phantom) \o DividerStr \o Encode(IdToBytes(id))

\* A parse that does not look at the length before it decodes.
UntypedFromStrAnyLength(src) ==
    LET d == DecodeMut(src, 16)
    IN  IF d.tag = "Panic" THEN Panic
        ELSE IF d.tag = "Err" THEN Err("DecodePartial")
        ELSE Ok(FromBytes(d.val))

\* impl FromStr for UntypedId.
UntypedFromStr(src) ==
    IF Len(src) # ENCODED_BARE_ID_LEN THEN Err("Unparseable")
    ELSE LET d == DecodeMut(src, 16)
         IN  IF d.tag = "Panic" THEN Panic
             ELSE IF d.tag = "Err" THEN Err("DecodePartial")
             ELSE Ok(FromBytes(d.val))

\* impl FromStr for Id<T>.
IdFromStr(E, src) ==
    LET expected_length == Len(EntityPREFIX(E)) + Len(DividerStr)
    IN  IF Len(src) < expected_length THEN Err("InvalidPrefix")
        ELSE LET s1 == SplitAt(src, Len(EntityPREFIX(E)))
             IN  IF s1.tag = "Panic" THEN Panic
                 ELSE IF s1.val[1] # EntityPREFIX(E) THEN Err("InvalidPrefix")
                 ELSE LET s2 == SplitAt(s1.val[2], Len(DividerStr))
                      IN  IF s2.tag = "Panic" THEN Panic
                          ELSE IF s2.val[1] # DividerStr THEN Err("Unparseable")
                          ELSE LET d == DecodeMut(s2.val[2], 16)
                               IN  IF d.tag = "Panic" THEN Panic
                                   ELSE IF d.tag = "Err" THEN Err("DecodePartial")
                                   ELSE Ok(IdFromBytes(E, d.val))

\* serde_json's writer of a str: the quote and the backslash behind a
\* backslash, the control characters below 0x20 as \b \f \n \r \t or as
\* \u00XX with lower-case digits, every other byte as it is.
HexDigit(n) == IF n < 10 THEN 48 + n ELSE 87 + n
JsonEscapeByte(b) ==
    IF b = 34 THEN <<92, 34>>
    ELSE IF b = 92 THEN <<92, 92>>
    ELSE IF b = 8 THEN <<92, 98>>
    ELSE IF b = 12 THEN <<92, 102>>
    ELSE IF b = 10 THEN <<92, 110>>
    ELSE IF b = 13 THEN <<92, 114>>
    ELSE IF b = 9 THEN <<92, 116>>
    ELSE IF b < 32 THEN <<92, 117, 48, 48, HexDigit(b \div 16), HexDigit(b % 16)>>
    ELSE <<b>>
RECURSIVE JsonEscape(_)
JsonEscape(s) ==
    IF Len(s) = 0 THEN <<>>
    ELSE IF Len(s) = 1 THEN JsonEscapeByte(s[1])
    ELSE JsonEscape(SubSeq(s, 1, Len(s) \div 2))
         \o JsonEscape(SubSeq(s, Len(s) \div 2 + 1, Len(s)))

\* The backslashes that end right before the byte k of s. A backslash
\* starts an escape when an even number of them precedes it.
BackslashesBefore(s, k) ==
    k - CHOOSE j \in 1..k :
            /\ \A i \in j..(k - 1) : s[i] = 92
            /\ j = 1 \/ s[j - 1] # 92
JsonEscapeStart(s, k) == s[k] = 92 /\ BackslashesBefore(s, k) % 2 = 0

\* Ok of both parts joined, or the first Err.
JsonJoin(a, b) ==
    IF a.tag # "Ok" THEN a ELSE IF b.tag # "Ok" THEN b ELSE Ok(a.val \o b.val)

\* The four hex digits, of either case, behind the \u at k: the code unit,
\* or -1.
HexValue(b) ==
    IF b \in 48..57 THEN b - 48
    ELSE IF b \in 65..70 THEN b - 55
    ELSE IF b \in 97..102 THEN b - 87
    ELSE -1
JsonHex4(s, k) ==
    IF k + 5 > Len(s) THEN -1
    ELSE IF s[k] # 92 \/ s[k + 1] # 117 THEN -1
    ELSE IF \E d \in 2..5 : HexValue(s[k + d]) < 0 THEN -1
    ELSE HexValue(s[k + 2]) * 4096 + HexValue(s[k + 3]) * 256
             + HexValue(s[k + 4]) * 16 + HexValue(s[k + 5])

\* char::encode_utf8.
Utf8(cp) ==
    IF cp < 128 THEN <<cp>>
    ELSE IF cp < 2048 THEN <<192 + (cp \div 64), 128 + (cp % 64)>>
    ELSE IF cp < 65536
    THEN <<224 + (cp \div 4096), 128 + ((cp \div 64) % 64), 128 + (cp % 64)>>
    ELSE <<240 + (cp \div 262144), 128 + ((cp \div 4096) % 64),
           128 + ((cp \div 64) % 64), 128 + (cp % 64)>>

\* serde_json's parse_escape on the escape that starts at k: \" \\ \/ \b \f
\* \n \r \t, and \uXXXX, where a leading surrogate needs the trailing one in
\* a \u right behind it and a trailing one alone is an error. The trailing
\* half of a pair gives nothing of its own.
JsonEscapeAt(s, k) ==
    IF k = Len(s) THEN Err("Json")
    ELSE IF s[k + 1] \in {34, 92, 47} THEN Ok(<<s[k + 1]>>)
    ELSE IF s[k + 1] = 98 THEN Ok(<<8>>)
    ELSE IF s[k + 1] = 102 THEN Ok(<<12>>)
    ELSE IF s[k + 1] = 110 THEN Ok(<<10>>)
    ELSE IF s[k + 1] = 114 THEN Ok(<<13>>)
    ELSE IF s[k + 1] = 116 THEN Ok(<<9>>)
    ELSE IF s[k + 1] # 117 THEN Err("Json")
    ELSE IF JsonHex4(s, k) < 0 THEN Err("Json")
    ELSE IF JsonHex4(s, k) \in 56320..57343
    THEN (IF k >= 7 /\ JsonEscapeStart(s, k - 6) /\ JsonHex4(s, k - 6) \in 55296..56319
          THEN Ok(<<>>) ELSE Err("Json"))
    ELSE IF JsonHex4(s, k) \in 55296..56319
    THEN (IF JsonHex4(s, k + 6) \in 56320..57343
          THEN Ok(Utf8(65536 + (JsonHex4(s, k) - 55296) * 1024
                             + (JsonHex4(s, k + 6) - 56320)))
          ELSE Err("Json"))
    ELSE Ok(Utf8(JsonHex4(s, k)))

\* The byte k of the inside of a JSON string lies inside an escape that
\* started before it.
JsonInsideEscape(s, k) ==
    \E j \in 1..(k - 1) :
        /\ JsonEscapeStart(s, j)
        /\ k <= j + (IF j < Len(s) /\ s[j + 1] = 117 THEN 5 ELSE 1)

\* What the byte k of the inside of a JSON string adds to the str: the
\* character of the escape that starts there, nothing inside an escape, the
\* byte itself otherwise; a bare quote or control character is an error.
JsonPiece(s, k) ==
    IF JsonEscapeStart(s, k) THEN JsonEscapeAt(s, k)
    ELSE IF JsonInsideEscape(s, k) THEN Ok(<<>>)
    ELSE IF s[k] < 32 \/ s[k] = 34 THEN Err("Json")
    ELSE Ok(<<s[k]>>)
RECURSIVE JsonPieces(_, _, _)
JsonPieces(s, lo, hi) ==
    IF lo > hi THEN Ok(<<>>)
    ELSE IF lo = hi THEN JsonPiece(s, lo)
    ELSE JsonJoin(JsonPieces(s, lo, (lo + hi) \div 2),
                  JsonPieces(s, (lo + hi) \div 2 + 1, hi))

\* The str of the inside of a JSON string.
JsonUnescape(s) == JsonPieces(s, 1, Len(s))

\* serde_json::to_string of a str.
JsonToString(s) == <<34>> \o JsonEscape(s) \o <<34>>

\* serde_json's reader: white space is skipped before the value and after
\* it; the string starts at the first byte that is no white space and ends
\* at the first quote that no backslash escapes (0 when there is none).
JsonWhitespace == {32, 10, 9, 13}
JsonSkipWhitespace(json, k) ==
    CHOOSE j \in k..(Len(json) + 1) :
        /\ \A i \in k..(j - 1) : json[i] \in JsonWhitespace
        /\ j = Len(json) + 1 \/ json[j] \notin JsonWhitespace
JsonStringStart(json) == JsonSkipWhitespace(json, 1)
JsonStringEnds(json) ==
    {k \in (JsonStringStart(json) + 1)..Len(json) :
        json[k] = 34 /\ BackslashesBefore(json, k) % 2 = 0}
JsonStringEnd(json) ==
    IF JsonStringEnds(json) = {} THEN 0
    ELSE CHOOSE k \in JsonStringEnds(json) : \A j \in JsonStringEnds(json) : k <= j

\* deserialize_str up to the call of the visitor: the str of the JSON string
\* the text starts with, or the error of the reader when it starts with
\* something else or the string does not end or holds a bad escape.
JsonReadStr(json) ==
    IF JsonStringStart(json) > Len(json) THEN Err("Json")
    ELSE IF json[JsonStringStart(json)] # 34 THEN Err("Json")
    ELSE IF JsonStringEnd(json) = 0 THEN Err("Json")
    ELSE JsonUnescape(SubSeq(json, JsonStringStart(json) + 1, JsonStringEnd(json) - 1))

\* Deserializer::end: anything but white space behind the value is an error.
JsonTrailing(json) ==
    JsonSkipWhitespace(json, JsonStringEnd(json) + 1) <= Len(json)

\* serde_json::from_str::<String>.
JsonFromStr(json) ==
    IF JsonReadStr(json).tag # "Ok" THEN JsonReadStr(json)
    ELSE IF JsonTrailing(json) THEN Err("Json")
    ELSE JsonReadStr(json)

\* What visit_str returned, then Deserializer::end: the visitor's error goes
\* before the one of trailing characters.
JsonVisited(json, visited) ==
    IF visited.tag # "Ok" THEN visited
    ELSE IF JsonTrailing(json) THEN Err("Json")
    ELSE visited

\* impl Serialize: serializer.serialize_str(&self.to_string()), and
\* impl Deserialize: deserialize_str with a visitor whose visit_str parses
\* the str and hands its error on as a custom error.
IdSerialize(id) == JsonToString(IdDisplay(id))
IdDeserialize(E, json) ==
    IF JsonReadStr(json).tag # "Ok" THEN JsonReadStr(json)
    ELSE JsonVisited(json, IdFromStr(E, JsonReadStr(json).val))
UntypedSerialize(u) == JsonToString(UntypedToString(u))
UntypedDeserialize(json) ==
    IF JsonReadStr(json).tag # "Ok" THEN JsonReadStr(json)
    ELSE JsonVisited(json, UntypedFromStr(JsonReadStr(json).val))

\* u64 arithmetic of the hasher: ^ and rotate_left (and Add64 above).
Xor64(a, b) == SubSeq([k \in 1..64 |-> (a[k] + b[k]) % 2], 1, 64)
RotateLeft(a, n) == SubSeq([k \in 1..64 |-> a[((k - 1 + n) % 64) + 1]], 1, 64)

\* siphasher::sip::SipHasher24, the state <<v0, v1, v2, v3>>.  One SipRound
\* is four lines:
\*   v0 += v1; v1 <<<= 13; v1 ^= v0; v0 <<<= 32
\*   v2 += v3; v3 <<<= 16; v3 ^= v2
\*   v0 += v3; v3 <<<= 21; v3 ^= v0
\*   v2 += v1; v1 <<<= 17; v1 ^= v2; v2 <<<= 32
SipLine1(v) ==
    <<RotateLeft(Add64(v[1], v[2]), 32),
      Xor64(RotateLeft(v[2], 13), Add64(v[1], v[2])), v[3], v[4]>>
SipLine2(v) ==
    <<v[1], v[2], Add64(v[3], v[4]),
      Xor64(RotateLeft(v[4], 16), Add64(v[3], v[4]))>>
SipLine3(v) ==
    <<Add64(v[1], v[4]), v[2], v[3],
      Xor64(RotateLeft(v[4], 21), Add64(v[1], v[4]))>>
SipLine4(v) ==
    <<v[1], Xor64(RotateLeft(v[2], 17), Add64(v[3], v[2])),
      RotateLeft(Add64(v[3], v[2]), 32), v[4]>>
SipLine(v, k) ==
    IF k = 1 THEN SipLine1(v)
    ELSE IF k = 2 THEN SipLine2(v)
    ELSE IF k = 3 THEN SipLine3(v)
    ELSE SipLine4(v)

\* The lines k to 4 of a round.  Each state is computed before the next line
\* is entered: TLC evaluates an operator's arguments only when they are used.
RECURSIVE SipLines(_, _)
SipLines(v, k) ==
    IF k > 4 \/ Len(v) # 4 THEN v ELSE SipLines(SipLine(v, k), k + 1)
SipRound(v) == SipLines(v, 1)

\* The little-endian u64 of eight bytes.
ReadU64LittleEndian(bytes) == BytesToBits([k \in 1..8 |-> bytes[9 - k]])

\* n rounds.
RECURSIVE SipRounds(_, _)
SipRounds(v, n) ==
    IF n = 0 \/ Len(v) # 4 THEN v ELSE SipRounds(SipRound(v), n - 1)

\* One message word m: v3 ^= m, two rounds (c_rounds), v0 ^= m.
SipXorWord(v, k, m) == [v EXCEPT ![k] = Xor64(v[k], m)]
SipCompress(v, m) == SipXorWord(SipRounds(SipXorWord(v, 4, m), 2), 1, m)

\* The whole words of the data written, eight bytes each.
RECURSIVE SipBlocks(_, _)
SipBlocks(v, data) ==
    IF Len(data) < 8 \/ Len(v) # 4 THEN v
    ELSE SipBlocks(SipCompress(v, ReadU64LittleEndian(SubSeq(data, 1, 8))),
                   SubSeq(data, 9, Len(data)))

\* The last word: the bytes left over, and the length in the top byte.
SipLastWord(data) ==
    ReadU64LittleEndian(
        [k \in 1..8 |->
            IF k <= Len(data) % 8 THEN data[Len(data) - (Len(data) % 8) + k]
            ELSE IF k = 8 THEN Len(data) % 256 ELSE 0])

\* SipHasher24::new_with_keys(k0, k1).
SipInit(k0, k1) ==
    <<Xor64(k0, U64(29551, 28005, 28787, 25973)),
      Xor64(k1, U64(25711, 29281, 28260, 28525)),
      Xor64(k0, U64(27769, 26469, 28261, 29281)),
      Xor64(k1, U64(29797, 25698, 31092, 25971))>>

\* finish(): v2 ^= 0xff, four rounds (d_rounds), v0 ^ v1 ^ v2 ^ v3.
SipXorAll(v) == Xor64(Xor64(v[1], v[2]), Xor64(v[3], v[4]))
SipFinish(v) == SipXorAll(SipRounds(SipXorWord(v, 3, U64(0, 0, 0, 255)), 4))

\* The hash of the data written into SipHasher24::new_with_keys(k0, k1).
SipHash24(k0, k1, data) ==
    SipFinish(SipCompress(SipBlocks(SipInit(k0, k1), data), SipLastWord(data)))

\* impl Hash for str: the bytes, then 0xff.
HashStr(s) == s \o <<255>>

\* A hash that reads the length of the str and none of its bytes.
HashedLengthOnly(x) ==
    UntypedIdOf(U64(0, 0, 0, 0),
                SipHash24(U64(0, 0, 0, 0), U64(0, 0, 0, 0), <<Len(x), 255>>))

\* UntypedId::hashed and Id::hashed of a str.
Hashed(x) ==
    UntypedIdOf(U64(0, 0, 0, 0),
                SipHash24(U64(0, 0, 0, 0), U64(0, 0, 0, 0), HashStr(x)))
IdHashed(E, x) == FromUntyped(E, Hashed(x))

\* ---------------------------------------------- identifiers of documents
\* Entity::PREFIX of ADocument, ChattyDoc, Poll and Subject.
PREFIX == Str(<<"a", "d", "o", "c", "u", "m", "e", "n", "t">>)
ChattyPREFIX == Str(<<"c", "h", "a", "t", "t", "y">>)
PollPREFIX == Str(<<"p", "o", "l", "l">>)
SubjectPREFIX == Str(<<"s", "u", "b", "j", "e", "c", "t">>)
Prefixes == {PREFIX, ChattyPREFIX, PollPREFIX, SubjectPREFIX}

\* The identifiers in play, each named by a short name and belonging to the
\* entity of its set: the one named i has the 128 bits of Id::hashed(i), a
\* stamp of 0 and the SipHash of the name, written out here.
AllIds == DocIds \cup ChattyIds \cup PollIds \cup Subjects
IdValues ==
    [i \in AllIds |->
        UntypedIdOf(U64(0, 0, 0, 0),
                    IF i = "x" THEN U64(54974, 51109, 47936, 19418)
                    ELSE IF i = "y" THEN U64(54565, 39828, 43564, 38730)
                    ELSE IF i = "c" THEN U64(34853, 61832, 27548, 22225)
                    ELSE IF i = "p" THEN U64(11429, 32935, 39366, 39090)
                    ELSE IF i = "q" THEN U64(55008, 45028, 1570, 52078)
                    ELSE IF i = "s1" THEN U64(33058, 63765, 4500, 26438)
                    ELSE U64(33030, 18970, 18653, 46404))] @@ <<>>
IdValue(i) == IdValues[i]
IdName(i) == Str([k \in 1..Len(i) |-> SubSeq(i, k, k)])
IdValuesAreHashed == \A i \in AllIds : IdValue(i) = Hashed(IdName(i))

\* T::PREFIX of the entity an Id<T> belongs to.
PrefixOf(i) ==
    IF i \in ChattyIds THEN ChattyPREFIX
    ELSE IF i \in PollIds THEN PollPREFIX
    ELSE IF i \in Subjects THEN SubjectPREFIX
    ELSE PREFIX

\* impl Display for Id<T>: the prefix, the divider, the encoded bytes.
IdToStringOf(i) == PrefixOf(i) \o DividerStr \o Encode(ToBytes(IdValue(i)))

\* A str of a row or of a body.  The display of an identifier in play,
\* written once, is kept by the name of the identifier (of), and every other
\* str by its bytes with no name (""): Text is the str of given bytes, and
\* TextBytes the bytes of a str.
Displays == [i \in AllIds |-> IdToStringOf(i)] @@ <<>>
Text(bytes) ==
    IF \E i \in AllIds : Displays[i] = bytes
    THEN [of |-> CHOOSE i \in AllIds : Displays[i] = bytes, bytes |-> <<>>]
    ELSE [of |-> "", bytes |-> bytes]
TextBytes(t) == IF t.of = "" THEN t.bytes ELSE Displays[t.of]

\* id.to_string(): the str of Display for Id<T>.
IdToString(i) == [of |-> i, bytes |-> <<>>]

\* Self::from_bytes: the Id<T> of T::PREFIX prefix with the bits of u, by
\* its name; an identifier that is not in play has no name and is kept as
\* the struct, its entity given by the prefix.
IdNamed(prefix, u) ==
    IF \E i \in AllIds : PrefixOf(i) = prefix /\ IdValue(i) = u
    THEN CHOOSE i \in AllIds : PrefixOf(i) = prefix /\ IdValue(i) = u
    ELSE IdOf(prefix, u)

\* FromStr for Id<T>, T::PREFIX being prefix: a text shorter than prefix and
\* divider is InvalidPrefix; split_at(T::PREFIX.len()) unwinds inside a
\* character; another start is InvalidPrefix; split_at(DIVIDER.len()) unwinds
\* inside a character; another divider is Unparseable; what follows goes to
\* decode_mut with a buffer of 16 bytes, no length being checked before, and
\* decode_mut asserts that the text has the length of an encoded body, and
\* fails on a byte that is no symbol and on trailing bits.
IdFromDecoded(prefix, d) ==
    IF d.tag = "Panic" THEN Panic
    ELSE IF d.tag = "Err" THEN Err("DecodePartial")
    ELSE Ok(IdNamed(prefix, FromBytes(d.val)))
IdFromRemainder(prefix, s2) ==
    IF s2.tag = "Panic" THEN Panic
    ELSE IF s2.val[1] # DividerStr THEN Err("Unparseable")
    ELSE IdFromDecoded(prefix, DecodeMut(s2.val[2], 16))
IdFromSplit(prefix, s1) ==
    IF s1.tag = "Panic" THEN Panic
    ELSE IF s1.val[1] # prefix THEN Err("InvalidPrefix")
    ELSE IdFromRemainder(prefix, SplitAt(s1.val[2], Len(DividerStr)))
IdFromStringOf(prefix, src) ==
    IF Len(src) < Len(prefix) + Len(DividerStr) THEN Err("InvalidPrefix")
    ELSE IdFromSplit(prefix, SplitAt(src, Len(prefix)))

\* str::parse::<Id<T>>(): the displays of the identifiers in play are read
\* once, every other str as it comes.
Parses ==
    [p \in Prefixes |-> [i \in AllIds |-> IdFromStringOf(p, Displays[i])] @@ <<>>]
        @@ <<>>
IdFromString(prefix, t) ==
    IF t.of # "" /\ prefix \in Prefixes THEN Parses[prefix][t.of]
    ELSE IdFromStringOf(prefix, TextBytes(t))

\* --------------------------------------------------------------- documents

\* Version::default()
VersionDefault == 0

\* Version(u64). A version is held as the two's complement reading of its
\* 64-bit word, under which = and the wrapping + 1 are those of the word: 0,
\* 1, 2, ... are themselves and u64::MAX, the word of all ones, is -1 (the
\* values in between are out of the model's reach).
VersionMax == -1

\* The order of the u64 words under that reading.
VersionLess(a, b) == IF (a < 0) = (b < 0) THEN a < b ELSE b < 0

\* The builds of the crate: with overflow checks (debug) and without.
Builds == {"debug", "release"}

NewWithIdVersionOne(i, n) == [id |-> i, version |-> 1, name |-> n]

\* DocMeta::new_with_id wrapped in an ADocument: version 0.
NewWithId(i, n) == [id |-> i, version |-> VersionDefault, name |-> n]

\* DocMeta::new_with_id wrapped in a ChattyDoc with MailBox::default().
MailBoxEmpty == {}
NewChattyDoc(i) == [id |-> i, version |-> VersionDefault, outgoing |-> MailBoxEmpty]

\* HashMap::new(), and Poll { meta: DocMeta::new_with_id(id), name, votes }
\* as CreatePoll builds it; votes is a map from subjects to choices.
NoVotes == <<>>
NewPoll(i, n) == [id |-> i, version |-> VersionDefault, name |-> n, votes |-> NoVotes]

\* Subject { meta: DocMeta::new_with_id(id) } as CreateSubject builds it.
NewSubject(i) == [id |-> i, version |-> VersionDefault]

\* A vote that is kept only when the subject has none yet.
PollRecordVoteKeepsFirst(votes, subject, choice) ==
    IF subject \in DOMAIN votes THEN votes
    ELSE [s \in DOMAIN votes \cup {subject} |->
             IF s = subject THEN choice ELSE votes[s]]

\* impl GenService<RecordVote> for Poll: votes.entry(subject_id)
\* .and_modify(|v| *v = choice).or_insert_with(|| choice).
PollRecordVote(votes, subject, choice) ==
    [s \in DOMAIN votes \cup {subject} |-> IF s = subject THEN choice ELSE votes[s]]

\* impl GenService<TallyVotes> for Poll: for v in votes.values()
\* { *tally.entry(v).or_insert(0) += 1 }.
PollTallyVotes(votes) ==
    [c \in {votes[s] : s \in DOMAIN votes} |->
        Cardinality({s \in DOMAIN votes : votes[s] = c})]

MailBoxSendReplacing(outgoing, msg) == {msg}

\* MailBox::send: self.outgoing.insert(msg), which leaves a set that holds an
\* equal value as it is.
MailBoxSend(outgoing, msg) ==
    IF msg \in outgoing THEN outgoing ELSE outgoing \cup {msg}

IncrementVersionSkipped(build, d) == Ok(d)

IncrementVersionByTwo(build, d) == Ok([d EXCEPT !.version = @ + 2])

\* DocMeta::increment_version: self.version.0 += 1 on a u64. At u64::MAX the
\* addition overflows: a build with overflow checks panics there and leaves
\* the version as it is, a build without them wraps it to 0.
IncrementVersion(build, d) ==
    IF d.version # VersionMax THEN Ok([d EXCEPT !.version = @ + 1])
    ELSE IF build = "debug" THEN Panic
    ELSE Ok([d EXCEPT !.version = 0])

\* The votes of a Poll as the JSON object serde writes: the keys are the
\* display strings of the subjects' identifiers.
VotesToJson(votes) ==
    [k \in {IdToString(s) : s \in DOMAIN votes} |->
        votes[CHOOSE s \in DOMAIN votes : IdToString(s) = k]]

\* HashMap<Id<Subject>, String> read from a JSON object: every key is parsed
\* as an Id<Subject>, and one that is none fails the whole; serde_json walks
\* the keys in their order, so of two keys of one identifier (its symbols
\* in either case) the greater one is inserted last and stays.
VotesKeysOf(object, s) ==
    {k \in DOMAIN object : IdFromString(SubjectPREFIX, k).val = s}
VotesFromJson(object) ==
    IF \E k \in DOMAIN object : IdFromString(SubjectPREFIX, k).tag # "Ok"
    THEN None
    ELSE Some([s \in {IdFromString(SubjectPREFIX, k).val : k \in DOMAIN object} |->
                 object[CHOOSE k \in VotesKeysOf(object, s) :
                            \A j \in VotesKeysOf(object, s) :
                                j = k \/ BytesLess(TextBytes(j), TextBytes(k))]])

ToJsonBeforeIncrement(d) ==
    [id |-> IdToString(d.id), version |-> d.version - 1, name |-> d.name]

ToJsonMailBoxSkipped(d) ==
    IF "outgoing" \in DOMAIN d
    THEN [id |-> IdToString(d.id), version |-> d.version, outgoing |-> {}]
    ELSE [id |-> IdToString(d.id), version |-> d.version, name |-> d.name]

\* Jsonb(&document) as sent to the store: serde flattens the meta into the
\* keys _id (the identifier's display string) and _version, and the mailbox
\* of a ChattyDoc into the key _outgoing, an array of the messages of the set
\* (kept here as the set of the array's items, their order left out); a
\* Subject is its meta alone.
ToJson(d) ==
    IF "outgoing" \in DOMAIN d
    THEN [id |-> IdToString(d.id), version |-> d.version, outgoing |-> d.outgoing]
    ELSE IF "votes" \in DOMAIN d
    THEN [id |-> IdToString(d.id), version |-> d.version, name |-> d.name,
          votes |-> VotesToJson(d.votes)]
    ELSE IF "name" \in DOMAIN d
    THEN [id |-> IdToString(d.id), version |-> d.version, name |-> d.name]
    ELSE [id |-> IdToString(d.id), version |-> d.version]

\* The documents a caller asks serde for: load::<D> and
\* load_next_unsent::<D>; an identifier belongs to the entity of its set.
EntityOf(i) ==
    IF i \in ChattyIds THEN "ChattyDoc"
    ELSE IF i \in PollIds THEN "Poll"
    ELSE IF i \in Subjects THEN "Subject"
    ELSE "ADocument"

\* #[serde(flatten)] meta: DocMeta<D>: the keys _id, an Id<D>, and _version.
MetaFromJson(prefix, b) ==
    IF ~({"id", "version"} \subseteq DOMAIN b) THEN None
    ELSE IF IdFromString(prefix, b.id).tag # "Ok" THEN None
    ELSE Some([id |-> IdFromString(prefix, b.id).val, version |-> b.version])

FromJsonVersionDefault(D, b) ==
    IF MetaFromJson(PREFIX, b) = None THEN None
    ELSE Some([id |-> MetaFromJson(PREFIX, b)[1].id, version |-> VersionDefault,
               name |-> b.name])

\* Jsonb::from_sql, serde_json::from_value::<D>: the document of the type D
\* the caller asks for, read from a stored body: its meta, and the fields of
\* D; a key that D does not have is passed over, and a body that lacks a key
\* of D, whose _id is no Id<D>, or whose votes have a key that is no
\* Id<Subject> is none, where row.get(0) unwinds.
ChattyDocFromJson(meta, b) ==
    IF meta = None \/ "outgoing" \notin DOMAIN b THEN None
    ELSE Some([id |-> meta[1].id, version |-> meta[1].version,
               outgoing |-> b.outgoing])
PollFromJson(meta, b) ==
    IF meta = None \/ ~({"name", "votes"} \subseteq DOMAIN b) THEN None
    ELSE IF VotesFromJson(b.votes) = None THEN None
    ELSE Some([id |-> meta[1].id, version |-> meta[1].version,
               name |-> b.name, votes |-> VotesFromJson(b.votes)[1]])
ADocumentFromJson(meta, b) ==
    IF meta = None \/ "name" \notin DOMAIN b THEN None
    ELSE Some([id |-> meta[1].id, version |-> meta[1].version, name |-> b.name])
FromJson(D, b) ==
    IF D = "ChattyDoc" THEN ChattyDocFromJson(MetaFromJson(ChattyPREFIX, b), b)
    ELSE IF D = "Poll" THEN PollFromJson(MetaFromJson(PollPREFIX, b), b)
    ELSE IF D = "ADocument" THEN ADocumentFromJson(MetaFromJson(PREFIX, b), b)
    ELSE MetaFromJson(SubjectPREFIX, b)

VARIABLES
    documents,  \* the committed rows of table documents: records [id, body]
    doc,        \* doc[w]: the writer's in-memory document, an Option
    pc,         \* pc[w]: "idle", or where the writer's save stands
    cur,        \* cur[w]: save's local current_version
    pending,    \* pending[w]: the uncommitted write of w's transaction, an Option
    result,     \* result[w]: [op, res], what the writer's last call returned
    base,       \* history: the stored body doc[w] was loaded from or last wrote
    wins,       \* history: the version transitions won, as <<key, version>> pairs
    conns,      \* conns[w]: the pooled connections caller w has checked out
    inCall,     \* inCall[w]: the caller is inside a call made on the pool
    mailbox,    \* the outgoing set of a MailBox that is part of no document
    sends,      \* history: the messages sent into that mailbox, in order
    issued,     \* the identifiers IdGen and hashed have returned, in order
    text,       \* a str: what an identifier displayed as, or what is parsed
    shown,      \* history: the identifier and the form text was displayed from
    tampered,   \* history: text was changed after it was displayed
    outcome,    \* what the last parse of text returned, and which parser
    call,       \* call[w]: the Polls::call that instance w is inside, and where
    reply,      \* reply[w]: what the instance's last Polls::call returned
    made,       \* history: the identifiers IdGen has handed to the services
    cast        \* history: per poll, the last vote saved of each subject

\* The store and its callers.
evars == <<documents, doc, pc, cur, pending, result, base, wins>>
\* The pool, and the mailbox on its own.
pvars == <<conns, inCall>>
mvars == <<mailbox, sends>>
\* The identifiers on their own.
ivars == <<issued, text, shown, tampered, outcome>>
\* The Polls service.
svars == <<call, reply, made, cast>>
vars == <<documents, doc, pc, cur, pending, result, base, wins,
          conns, inCall, mailbox, sends,
          issued, text, shown, tampered, outcome,
          call, reply, made, cast>>

Ret(op, res) == [op |-> op, res |-> res]
NoResult == Ret("none", "none")

\* ------------------------------------------------------------- the store
RowsFor(rows, key) == {r \in rows : r.id = key}

\* The writes of the transactions in flight.
InFlight(ws) == {pending[u][1] : u \in {x \in ws : pending[x] # None}}

LoadRowsDirty(w, key) ==
    RowsFor(documents \cup UNION {p.new : p \in InFlight(Writers)}, key)

\* LOAD_SQL: SELECT body FROM documents WHERE id = $1, on a connection that
\* holds no transaction: the committed rows of that id.
LoadRows(w, key) == RowsFor(documents, key)

InsertCandidateUnchecked(body) == {[id |-> body.id, body |-> body]}

\* INSERT_SQL: the row to insert, keyed by body ->> '_id', WHERE NOT EXISTS a
\* row of that id (as the statement's snapshot sees the table).
InsertCandidate(body) ==
    IF RowsFor(documents, body.id) = {} THEN {[id |-> body.id, body |-> body]} ELSE {}

UpdateMatchesAnyVersion(body, expected) == RowsFor(documents, body.id)

\* A variant that compares the stored version with the incremented one.
UpdateMatchesNewVersion(body, expected) ==
    {r \in RowsFor(documents, body.id) : r.body.version = body.version}

UpdateMatchesAnyId(body, expected) == {r \in documents : r.body.version = expected}

\* UPDATE_SQL: the rows WHERE id = body ->> '_id' AND d.body -> '_version' =
\* expected_version.
UpdateMatches(body, expected) ==
    {r \in RowsFor(documents, body.id) : r.body.version = expected}

UpdatedRowsDeleted(body, matched) == {}

UpdatedRowsKeepBody(body, matched) ==
    {[id |-> r.id, body |-> [r.body EXCEPT !.version = body.version]] : r \in matched}

\* UPDATE_SQL: SET body = a.body on every row matched.
UpdatedRows(body, matched) == {[id |-> r.id, body |-> body] : r \in matched}

\* The keys other transactions have inserted and not yet committed.
InFlightInserts(w) ==
    {r.id : r \in UNION {p.new : p \in {q \in InFlight(Writers \ {w}) : q.kind = "insert"}}}

\* The rows other transactions have updated and not yet committed (row locks).
LockedRows(w) == UNION {p.old : p \in InFlight(Writers \ {w})}

\* persistence.sql: documents.id is the table's primary key, so an insert of a
\* key that a transaction in flight has inserted waits for that transaction.
PrimaryKeyWait(w, key) == key \in InFlightInserts(w)

TakesInsertBranchAlways(v) == TRUE

\* save: if current_version == Version::default() { INSERT } else { UPDATE }
TakesInsertBranch(v) == v = VersionDefault

RowsIsZeroNever(rows) == FALSE

\* save: if rows == 0 { return Err(ConcurrencyError.into()) }
RowsIsZero(rows) == rows = 0

\* What the identifier tests hash, the clock readings and the random draws
\* IdGen may see, and the identifiers that are displayed and parsed.
Hi == Str(<<"H", "i", "!">>)
Boo == Str(<<"b", "o", "o">>)
Bob == Str(<<"B", "o", "b">>)
TestCorpus == {Hi, Boo, Bob}
\* Two strs of sixteen letters.
Fnh == Str(<<"f", "n", "h", "m", "n", "d", "o", "a", "c", "i", "c", "o", "h", "g", "n", "b">>)
Elh == Str(<<"e", "l", "h", "e", "h", "b", "p", "j", "k", "i", "f", "f", "l", "j", "k", "f">>)
Corpus == TestCorpus \cup {Fnh, Elh}
\* The clock readings: a clock before the epoch; 1 ns and 256 ns after it; a
\* day of 2023 (1,700,000,000 s); the last reading whose nanoseconds fit
\* a u64 (18,446,744,073 s and 709,551,615 ns, which make 2^64 - 1), the
\* nanosecond after it, and the second after that, whose seconds counted in
\* nanoseconds no longer fit.
LastSecond == U64(0, 4, 19330, 64009)
Clocks == {BeforeEpoch,
           Since(U64(0, 0, 0, 0), U64(0, 0, 0, 1)),
           Since(U64(0, 0, 0, 0), U64(0, 0, 0, 256)),
           Since(U64(0, 0, 25939, 61696), U64(0, 0, 0, 65535)),
           Since(LastSecond, U64(0, 0, 10826, 58879)),
           Since(LastSecond, U64(0, 0, 10826, 58880)),
           Since(U64(0, 4, 19330, 64010), U64(0, 0, 0, 0))}
Randoms == {U64(0, 0, 0, 1), U64(65535, 65535, 65535, 65535)}
SampleIds == {Hashed(Hi),
              UntypedIdOf(U64(6039, 43690, 0, 65535), U64(32768, 0, 0, 1)),
              UntypedIdOf(U64(65535, 65535, 65535, 65535),
                          U64(65535, 65535, 65535, 65535))}

\* The identifiers issued at once, at most.
MaxIssued == 3

\* What text was displayed from, and what a parse returned.
Shown(form, E, u) == [form |-> form, E |-> E, u |-> u]
NotShown == Shown("none", "none", UntypedIdOf(U64(0, 0, 0, 0), U64(0, 0, 0, 0)))
Outcome(parser, E, res) == [parser |-> parser, E |-> E, res |-> res]
NoOutcome == Outcome("none", "none", Err("none"))

\* A Polls::call in progress: the request and the statement the call has
\* reached; and what a call returned (the tally, for TallyVotes).
Call(op, stage, poll, subject, choice) ==
    [op |-> op, stage |-> stage, poll |-> poll, subject |-> subject, choice |-> choice]
NoCall == Call("none", "none", "none", "none", "none")
Reply(op, res, tally) == [op |-> op, res |-> res, tally |-> tally]
NoReply == Reply("none", "none", <<>>)

Init ==
    /\ documents = {}
    /\ doc = [w \in Writers |-> None]
    /\ pc = [w \in Writers |-> "idle"]
    /\ cur = [w \in Writers |-> 0]
    /\ pending = [w \in Writers |-> None]
    /\ result = [w \in Writers |-> NoResult]
    /\ base = [w \in Writers |-> None]
    /\ wins = {}
    /\ conns = [w \in Writers |-> {}]
    /\ inCall = [w \in Writers |-> FALSE]
    /\ mailbox = MailBoxEmpty
    /\ sends = <<>>
    /\ issued = <<>>
    /\ text = <<>>
    /\ shown = NotShown
    /\ tampered = FALSE
    /\ outcome = NoOutcome
    /\ call = [w \in Writers |-> NoCall]
    /\ reply = [w \in Writers |-> NoReply]
    /\ made = {}
    /\ cast = [i \in PollIds |-> NoVotes]

\* ------------------------------------------------- in-memory operations
\* A fresh document: ADocument { meta: DocMeta::new_with_id(id), name }.
NewDoc(w, i, n) ==
    /\ pc[w] = "idle"
    /\ doc' = [doc EXCEPT ![w] = Some(NewWithId(i, n))]
    /\ base' = [base EXCEPT ![w] = None]
    /\ result' = [result EXCEPT ![w] = NoResult]
    /\ UNCHANGED <<documents, pc, cur, pending, wins>>

\* The caller changes the entity's field of its in-memory document.
Modify(w, n) ==
    /\ pc[w] = "idle"
    /\ doc[w] # None
    /\ doc[w][1].name # n
    /\ doc' = [doc EXCEPT ![w] = Some([doc[w][1] EXCEPT !.name = n])]
    /\ result' = [result EXCEPT ![w] = NoResult]
    /\ UNCHANGED <<documents, pc, cur, pending, base, wins>>

\* The caller sets the version of its in-memory document: meta.version is a
\* public field (the tests copy another document's version into it), and a
\* Version deserializes from any u64.
ForgeVersion(w, v) ==
    /\ pc[w] = "idle"
    /\ doc[w] # None
    /\ doc[w][1].version # v
    /\ doc' = [doc EXCEPT ![w] = Some([doc[w][1] EXCEPT !.version = v])]
    /\ result' = [result EXCEPT ![w] = NoResult]
    /\ UNCHANGED <<documents, pc, cur, pending, base, wins>>

\* A fresh document with an empty mailbox:
\* ChattyDoc { meta: DocMeta::new_with_id(id), mbox: MailBox::default() }.
NewChatty(w, i) ==
    /\ pc[w] = "idle"
    /\ doc' = [doc EXCEPT ![w] = Some(NewChattyDoc(i))]
    /\ base' = [base EXCEPT ![w] = None]
    /\ result' = [result EXCEPT ![w] = NoResult]
    /\ UNCHANGED <<documents, pc, cur, pending, wins>>

\* some_doc.mbox.send(msg) on the caller's in-memory document.
SendFrom(w, msg) ==
    /\ pc[w] = "idle"
    /\ doc[w] # None
    /\ "outgoing" \in DOMAIN doc[w][1]
    /\ doc' = [doc EXCEPT ![w] = Some([doc[w][1] EXCEPT !.outgoing = MailBoxSend(@, msg)])]
    /\ result' = [result EXCEPT ![w] = NoResult]
    /\ UNCHANGED <<documents, pc, cur, pending, base, wins>>

\* ------------------------------------------------------------------ load
\* Documents::load: the first row of the query, deserialized, or None; a
\* body that does not deserialize makes row.get(0) unwind.
Load(w, i) ==
    /\ pc[w] = "idle"
    /\ LET rows == LoadRows(w, IdToString(i))
       IN  IF rows = {}
           THEN /\ result' = [result EXCEPT ![w] = Ret("load", "None")]
                /\ UNCHANGED <<doc, base>>
           ELSE \E r \in rows :
                IF FromJson(EntityOf(i), r.body) = None
                THEN /\ result' = [result EXCEPT ![w] = Ret("load", "Panic")]
                     /\ UNCHANGED <<doc, base>>
                ELSE /\ doc' = [doc EXCEPT ![w] = FromJson(EntityOf(i), r.body)]
                     /\ base' = [base EXCEPT ![w] = Some(r.body)]
                     /\ result' = [result EXCEPT ![w] = Ret("load", "Some")]
    /\ UNCHANGED <<documents, pc, cur, pending, wins>>

\* Documents::load: prepare_cached or query fails (or, through the pool, the
\* checkout does).
LoadFault(w) ==
    /\ pc[w] = "idle"
    /\ result' = [result EXCEPT ![w] = Ret("load", "StorageError")]
    /\ UNCHANGED <<documents, doc, pc, cur, pending, base, wins>>

\* LOAD_NEXT_SQL: the rows WHERE jsonb_array_length(body -> '_outgoing') > 0;
\* a body without the key gives NULL, which selects nothing.
UnsentRows(rows) ==
    {r \in rows : "outgoing" \in DOMAIN r.body /\ Cardinality(r.body.outgoing) > 0}

\* Documents::load_next_unsent::<ChattyDoc>, the one type it is called for:
\* LIMIT 1 of those rows, deserialized, or None.
LoadNextUnsent(w) ==
    /\ pc[w] = "idle"
    /\ LET rows == UnsentRows(documents)
       IN  IF rows = {}
           THEN /\ result' = [result EXCEPT ![w] = Ret("load_next_unsent", "None")]
                /\ UNCHANGED <<doc, base>>
           ELSE \E r \in rows :
                IF FromJson("ChattyDoc", r.body) = None
                THEN /\ result' = [result EXCEPT ![w] = Ret("load_next_unsent", "Panic")]
                     /\ UNCHANGED <<doc, base>>
                ELSE /\ doc' = [doc EXCEPT ![w] = FromJson("ChattyDoc", r.body)]
                     /\ base' = [base EXCEPT ![w] = Some(r.body)]
                     /\ result' = [result EXCEPT ![w] = Ret("load_next_unsent", "Some")]
    /\ UNCHANGED <<documents, pc, cur, pending, wins>>

\* Documents::load_next_unsent: prepare_cached or query fails.
LoadNextUnsentFault(w) ==
    /\ pc[w] = "idle"
    /\ result' = [result EXCEPT ![w] = Ret("load_next_unsent", "StorageError")]
    /\ UNCHANGED <<documents, doc, pc, cur, pending, base, wins>>

\* ------------------------------------------------------------------ save
\* Pool::save's self.get()? or Documents::save's self.connection.transaction()?
\* fails: the error is returned before the document is touched.
SaveBeginFault(w) ==
    /\ pc[w] = "idle"
    /\ doc[w] # None
    /\ result' = [result EXCEPT ![w] = Ret("save", "StorageError")]
    /\ UNCHANGED <<documents, doc, pc, cur, pending, base, wins>>

\* The transaction is open: current_version is read, the version incremented.
\* When increment_version panics the save unwinds: the transaction is dropped
\* with nothing written and the caller gets no result (the result Panic).
SaveBegin(w, maxv) ==
    /\ pc[w] = "idle"
    /\ doc[w] # None
    /\ doc[w][1].version < maxv
    /\ \E build \in Builds :
        IF IncrementVersion(build, doc[w][1]) = Panic
        THEN /\ result' = [result EXCEPT ![w] = Ret("save", "Panic")]
             /\ UNCHANGED <<doc, pc, cur>>
        ELSE /\ cur' = [cur EXCEPT ![w] = doc[w][1].version]
             /\ doc' = [doc EXCEPT ![w] = Some(IncrementVersion(build, doc[w][1]).val)]
             /\ pc' = [pc EXCEPT ![w] = "tx"]
             /\ result' = [result EXCEPT ![w] = Ret("save", "Running")]
    /\ UNCHANGED <<documents, pending, base, wins>>

SaveFailsAfterWriting(w, err) ==
    /\ pc' = [pc EXCEPT ![w] = "idle"]
    /\ cur' = [cur EXCEPT ![w] = 0]
    /\ pending' = [pending EXCEPT ![w] = None]
    /\ result' = [result EXCEPT ![w] = Ret("save", err)]
    /\ documents' = documents \cup
            {[id |-> IdToString(doc[w][1].id), body |-> ToJson(doc[w][1])]}
    /\ UNCHANGED <<doc, base, wins>>

\* The save returns an error: the transaction is dropped, hence rolled back.
SaveFails(w, err) ==
    /\ pc' = [pc EXCEPT ![w] = "idle"]
    /\ cur' = [cur EXCEPT ![w] = 0]
    /\ pending' = [pending EXCEPT ![w] = None]
    /\ result' = [result EXCEPT ![w] = Ret("save", err)]
    /\ UNCHANGED <<documents, doc, base, wins>>

\* The statement wrote: its effect stays in the transaction until commit.
SaveWrote(w, kind, old, new) ==
    /\ pc' = [pc EXCEPT ![w] = "exec"]
    /\ pending' = [pending EXCEPT ![w] = Some([kind |-> kind, old |-> old, new |-> new])]
    /\ UNCHANGED <<documents, doc, cur, result, base, wins>>

\* The INSERT or the UPDATE statement, then the rows == 0 check.
\* The INSERT evaluates NOT EXISTS on the committed rows; with a row to insert
\* it waits while another transaction holds an uncommitted insert of the key.
\* The UPDATE skips a row whose committed version does not match; a matching
\* row that another transaction has updated is locked, and the statement
\* waits and evaluates the row again once that transaction has ended, which
\* is the evaluation made here when the lock is gone.
SaveExec(w) ==
    /\ pc[w] = "tx"
    /\ LET body == ToJson(doc[w][1])
       IN  IF TakesInsertBranch(cur[w])
           THEN LET ins == InsertCandidate(body)
                IN  IF ins # {} /\ PrimaryKeyWait(w, body.id)
                    THEN /\ pc' = [pc EXCEPT ![w] = "wait"]
                         /\ UNCHANGED <<documents, doc, cur, pending, result, base, wins>>
                    ELSE IF RowsIsZero(Cardinality(ins))
                    THEN SaveFails(w, "ConcurrencyError")
                    ELSE SaveWrote(w, "insert", {}, ins)
           ELSE LET upd == UpdateMatches(body, cur[w])
                IN  /\ upd \cap LockedRows(w) = {}
                    /\ IF RowsIsZero(Cardinality(upd))
                       THEN SaveFails(w, "ConcurrencyError")
                       ELSE SaveWrote(w, "update", upd, UpdatedRows(body, upd))

\* The waiting INSERT goes on once the transaction it waited for has ended:
\* committed, the key is a duplicate (unique_violation, a postgres error that
\* execute(..)? returns); rolled back, the row is inserted.
SaveResume(w) ==
    /\ pc[w] = "wait"
    /\ LET body == ToJson(doc[w][1])
       IN  /\ ~PrimaryKeyWait(w, body.id)
           /\ IF RowsFor(documents, body.id) # {}
              THEN SaveFails(w, "UniqueViolation")
              ELSE SaveWrote(w, "insert", {}, {[id |-> body.id, body |-> body]})

\* prepare_cached, the serialization of the document or execute fails.
SaveExecFault(w) ==
    /\ pc[w] \in {"tx", "wait"}
    /\ SaveFails(w, "StorageError")

\* t.commit() succeeds: the transaction's write replaces the rows it matched.
SaveCommit(w) ==
    /\ pc[w] = "exec"
    /\ LET p == pending[w][1]
       IN  /\ documents' = (documents \ p.old) \cup p.new
           /\ base' = [base EXCEPT ![w] = Some(ToJson(doc[w][1]))]
           /\ wins' = wins \cup {<<IdToString(doc[w][1].id), cur[w]>>}
    /\ pc' = [pc EXCEPT ![w] = "idle"]
    /\ cur' = [cur EXCEPT ![w] = 0]
    /\ pending' = [pending EXCEPT ![w] = None]
    /\ result' = [result EXCEPT ![w] = Ret("save", "Ok")]
    /\ UNCHANGED doc

\* t.commit()? returns the error. Either the COMMIT was not carried out and
\* nothing of the transaction is stored, or the server carried it out and its
\* reply was lost on the way: the caller gets the error all the same, with the
\* transaction's write stored.
SaveCommitFault(w) ==
    /\ pc[w] = "exec"
    /\ \E carried \in BOOLEAN :
        IF carried
        THEN /\ documents' = (documents \ pending[w][1].old) \cup pending[w][1].new
             /\ base' = [base EXCEPT ![w] = Some(ToJson(doc[w][1]))]
             /\ wins' = wins \cup {<<IdToString(doc[w][1].id), cur[w]>>}
             /\ pc' = [pc EXCEPT ![w] = "idle"]
             /\ cur' = [cur EXCEPT ![w] = 0]
             /\ pending' = [pending EXCEPT ![w] = None]
             /\ result' = [result EXCEPT ![w] = Ret("save", "StorageError")]
             /\ UNCHANGED doc
        ELSE SaveFails(w, "StorageError")

\* -------------------------------------------------------------- the pool
\* r2d2::Pool::get: the caller holds the PooledConnection it is given.
PoolCheckout(held, c) == held \cup {c}

PoolReturnLeaks(held) == held

\* Drop of the PooledConnection when the call returns: back to the pool.
PoolReturn(held) == {}

\* The connections of the pool that no caller has checked out.
IdleConnections == Connections \ UNION {conns[w] : w \in Writers}

PoolGetTouchingDocument(w) ==
    /\ ~inCall[w]
    /\ pc[w] = "idle"
    /\ doc[w] # None
    /\ \E c \in IdleConnections :
        conns' = [conns EXCEPT ![w] = PoolCheckout(@, c)]
    /\ inCall' = [inCall EXCEPT ![w] = TRUE]
    /\ doc' = [doc EXCEPT ![w] = Some(IncrementVersion("release", doc[w][1]).val)]
    /\ UNCHANGED <<documents, pc, cur, pending, result, base, wins>>
    /\ UNCHANGED mvars /\ UNCHANGED ivars /\ UNCHANGED svars

\* Pool::load / Pool::save: let conn = self.get()?, an idle connection.
PoolGet(w) ==
    /\ ~inCall[w]
    /\ pc[w] = "idle"
    /\ \E c \in IdleConnections :
        conns' = [conns EXCEPT ![w] = PoolCheckout(@, c)]
    /\ inCall' = [inCall EXCEPT ![w] = TRUE]
    /\ UNCHANGED evars
    /\ UNCHANGED mvars /\ UNCHANGED ivars /\ UNCHANGED svars

\* Pool::load / Pool::save: conn.load(id) / conn.save(document), a step A of
\* the engine's call on the connection checked out; conn is dropped when the
\* call returns.
OnConnection(w, A) ==
    /\ inCall[w]
    /\ A
    /\ IF pc'[w] = "idle"
       THEN /\ conns' = [conns EXCEPT ![w] = PoolReturn(@)]
            /\ inCall' = [inCall EXCEPT ![w] = FALSE]
       ELSE UNCHANGED pvars
    /\ UNCHANGED mvars /\ UNCHANGED ivars /\ UNCHANGED svars

\* What the caller does between its calls on the pool; self.get()? failing
\* is such a step too, the call returning the error with nothing checked out.
Outside(w, A) ==
    /\ ~inCall[w]
    /\ A
    /\ UNCHANGED pvars
    /\ UNCHANGED mvars /\ UNCHANGED ivars /\ UNCHANGED svars

\* A step of a caller that holds a connection of its own (a Documents).
Direct(A) == A /\ UNCHANGED pvars /\ UNCHANGED mvars /\ UNCHANGED ivars /\ UNCHANGED svars

\* ------------------------------------------------- the mailbox on its own
\* mbox.send(msg) on a MailBox that is part of no document.
Send(msg) ==
    /\ Len(sends) < MaxSends
    /\ mailbox' = MailBoxSend(mailbox, msg)
    /\ sends' = Append(sends, msg)
    /\ UNCHANGED evars
    /\ UNCHANGED pvars
    /\ UNCHANGED ivars /\ UNCHANGED svars

\* ------------------------------------------------ identifiers on their own
\* An identifier as the caller holds it, with its bytes and its display.
Issue(id, by, x, now) ==
    [id |-> id, by |-> by, x |-> x, now |-> now,
     bytes |-> IdToBytes(id),
     untyped |-> UntypedToString(Untyped(id)),
     typed |-> IdDisplay(id)]

\* What generate::<Canary>() and hashed return for the readings, draws and
\* strs above, worked out once.
Generated ==
    [build \in Builds |->
        [now \in Clocks |->
            [rnd \in Randoms |-> Generate("Canary", build, now, rnd)] @@ <<>>] @@ <<>>] @@ <<>>
HashedIds == [x \in Corpus |-> IdHashed("Canary", x)] @@ <<>>

\* idgen.generate::<Canary>() with the clock reading now and the draw rnd:
\* the caller holds the identifier returned, or, when generate panics, none.
IdGenGenerate(build, now, rnd) ==
    /\ Len(issued) < MaxIssued
    /\ issued' = IF Generated[build][now][rnd] = Panic
                 THEN issued
                 ELSE Append(issued, Issue(Generated[build][now][rnd].val,
                                           "generate", <<>>, now))
    /\ UNCHANGED <<text, shown, tampered, outcome>>
    /\ UNCHANGED evars /\ UNCHANGED pvars /\ UNCHANGED mvars
    /\ UNCHANGED svars

\* Id::<Canary>::hashed(&x).
IdHashedOf(x) ==
    /\ Len(issued) < MaxIssued
    /\ issued' = Append(issued, Issue(HashedIds[x], "hashed", x,
                                      Since(U64(0, 0, 0, 0), U64(0, 0, 0, 0))))
    /\ UNCHANGED <<text, shown, tampered, outcome>>
    /\ UNCHANGED evars /\ UNCHANGED pvars /\ UNCHANGED mvars
    /\ UNCHANGED svars

\* text becomes s, displayed from u in the given form.
Display(form, E, u, s) ==
    /\ text' = s
    /\ shown' = Shown(form, E, u)
    /\ tampered' = FALSE
    /\ outcome' = NoOutcome
    /\ UNCHANGED issued
    /\ UNCHANGED evars /\ UNCHANGED pvars /\ UNCHANGED mvars
    /\ UNCHANGED svars

\* u.to_string(), id.to_string() and serde_json::to_string of both.
DisplayUntyped(u) == Display("untyped", "none", u, UntypedToString(u))
DisplayTyped(E, u) == Display("typed", E, u, IdDisplay(Typed(E, u)))
SerializeUntyped(u) == Display("json-untyped", "none", u, UntypedSerialize(u))
SerializeTyped(E, u) == Display("json-typed", E, u, IdSerialize(Typed(E, u)))

\* The bytes a displayed text is changed with: # . 0 1 w V, and the two
\* bytes of U+00E9.
TamperBytes == {Code("#"), Code("."), Code("0"), Code("1"), Code("w"), Code("V")}
WideChar == <<195, 169>>

\* The places of a str that are changed: its ends and around the end of an
\* entity's prefix.
TamperAt(s) ==
    ({1, Len(s)} \cup {Len(EntityPREFIX(E)) + d : E \in Entities, d \in 0..2})
        \cap (1..Len(s))

\* The texts one change away from s: cut short, one byte longer, one byte
\* replaced, or one byte replaced by a character of two bytes.
Tamperings(s) ==
    {SubSeq(s, 1, n - 1) : n \in TamperAt(s)}
        \cup {s \o <<c>> : c \in TamperBytes}
        \cup {[s EXCEPT ![p] = c] : p \in TamperAt(s), c \in TamperBytes}
        \cup {SubSeq(s, 1, p - 1) \o WideChar \o SubSeq(s, p + 1, Len(s)) :
                  p \in TamperAt(s)}

\* The text reaches the parser changed in one place.
Tamper ==
    /\ ~tampered
    /\ shown # NotShown
    /\ \E t \in Tamperings(text) \ {text} : text' = t
    /\ tampered' = TRUE
    /\ outcome' = NoOutcome
    /\ UNCHANGED <<issued, shown>>
    /\ UNCHANGED evars /\ UNCHANGED pvars /\ UNCHANGED mvars
    /\ UNCHANGED svars

\* A call on text that returns res.
Parsed(parser, E, res) ==
    /\ outcome' = Outcome(parser, E, res)
    /\ UNCHANGED <<issued, text, shown, tampered>>
    /\ UNCHANGED evars /\ UNCHANGED pvars /\ UNCHANGED mvars
    /\ UNCHANGED svars

\* text.parse::<UntypedId>(), text.parse::<Id<E>>() and serde_json::from_str
\* for both.
ParseUntyped == Parsed("untyped", "none", UntypedFromStr(text))
ParseTyped(E) == Parsed("typed", E, IdFromStr(E, text))
DeserializeUntyped == Parsed("json-untyped", "none", UntypedDeserialize(text))
DeserializeTyped(E) == Parsed("json-typed", E, IdDeserialize(E, text))

\* UntypedId::from_bytes(&u.to_bytes()) of the identifier displayed.
FromBytesOfToBytes ==
    /\ shown # NotShown
    /\ Parsed("from_bytes", "none", Ok(FromBytes(ToBytes(shown.u))))

\* ------------------------------------------------------ the Polls service
\* An instance of Polls<S> per caller, all on one store; a call is a
\* sequence of steps of the instance: the statements of its load and its
\* save, and what it does to the poll in memory between them.

\* A step of an instance whose store is a connection of its own.
Served(A) == A /\ UNCHANGED pvars /\ UNCHANGED mvars /\ UNCHANGED ivars

\* The stored versions of the poll are below maxv (the bound of the model).
StoredBelow(i, maxv) ==
    \A r \in RowsFor(documents, IdToString(i)) : r.body.version < maxv

\* A TallyVotes that saves the poll it has tallied.
StageAfterApplyAlwaysSave(op) == "save"

\* A RecordVote that returns without saving.
StageAfterApplyNeverSave(op) == "return"

\* What follows poll.call(req)? in Polls::call: self.store.save(&mut poll)?
\* for RecordVote, Ok(tally) for TallyVotes.
StageAfterApply(op) == IF op = "TallyVotes" THEN "return" ELSE "save"

\* What self.idgen.generate() gives a service: one of the identifiers ids
\* (nothing looks whether it was returned before), or a panic, when the clock
\* is before the epoch or its nanoseconds do not fit a u64.
GenerateOutcomes(ids) == {Ok(i) : i \in ids} \cup {Panic}

\* Polls::call(CreatePoll): the poll is made with the identifier
\* self.idgen.generate() returns and no votes, and its save is next; when
\* generate panics the call unwinds before the store is called and returns
\* nothing, which the reply Panic stands for.
CreatePoll(w, n, generated) ==
    /\ call[w] = NoCall
    /\ pc[w] = "idle"
    /\ IF generated = Panic
       THEN /\ reply' = [reply EXCEPT ![w] = Reply("CreatePoll", "Panic", <<>>)]
            /\ result' = [result EXCEPT ![w] = NoResult]
            /\ UNCHANGED <<doc, base, call, made>>
       ELSE /\ made' = made \cup {generated.val}
            /\ doc' = [doc EXCEPT ![w] = Some(NewPoll(generated.val, n))]
            /\ base' = [base EXCEPT ![w] = None]
            /\ result' = [result EXCEPT ![w] = NoResult]
            /\ call' = [call EXCEPT ![w] =
                   Call("CreatePoll", "save", generated.val, "none", "none")]
            /\ UNCHANGED reply
    /\ UNCHANGED <<documents, pc, cur, pending, wins, cast>>

\* A variant that goes on with a new poll when none is stored.
CallLoadOrCreate(w, op, i, s, c, maxv) ==
    /\ call[w] = NoCall
    /\ StoredBelow(i, maxv)
    /\ IF LoadRows(w, IdToString(i)) = {}
       THEN /\ pc[w] = "idle"
            /\ doc' = [doc EXCEPT ![w] = Some(NewPoll(i, "Canary Poll"))]
            /\ base' = [base EXCEPT ![w] = None]
            /\ result' = [result EXCEPT ![w] = Ret("load", "None")]
            /\ UNCHANGED <<documents, pc, cur, pending, wins>>
       ELSE Load(w, i)
    /\ call' = [call EXCEPT ![w] = Call(op, "apply", i, s, c)]
    /\ UNCHANGED <<reply, made, cast>>

\* Subjects::call(CreateSubject): the subject is made with the identifier
\* self.idgen.generate() returns, then saved; when generate panics the call
\* unwinds before the store is called.
CreateSubject(w, generated) ==
    /\ call[w] = NoCall
    /\ pc[w] = "idle"
    /\ IF generated = Panic
       THEN /\ reply' = [reply EXCEPT ![w] = Reply("CreateSubject", "Panic", <<>>)]
            /\ result' = [result EXCEPT ![w] = NoResult]
            /\ UNCHANGED <<doc, base, call, made>>
       ELSE /\ made' = made \cup {generated.val}
            /\ doc' = [doc EXCEPT ![w] = Some(NewSubject(generated.val))]
            /\ base' = [base EXCEPT ![w] = None]
            /\ result' = [result EXCEPT ![w] = NoResult]
            /\ call' = [call EXCEPT ![w] =
                   Call("CreateSubject", "save", generated.val, "none", "none")]
            /\ UNCHANGED reply
    /\ UNCHANGED <<documents, pc, cur, pending, wins, cast>>

\* self.store.load(&req.poll_id)?.ok_or_else(|| err_msg("Missing vote: ..")):
\* the call goes on with the poll loaded, or returns the error for Ok(None);
\* when the load unwinds the call unwinds with it and returns nothing, which
\* the reply Panic stands for.
CallLoad(w, op, i, s, c, maxv) ==
    /\ call[w] = NoCall
    /\ StoredBelow(i, maxv)
    /\ Load(w, i)
    /\ IF result'[w] = Ret("load", "Some")
       THEN /\ call' = [call EXCEPT ![w] = Call(op, "apply", i, s, c)]
            /\ UNCHANGED reply
       ELSE IF result'[w] = Ret("load", "None")
       THEN /\ reply' = [reply EXCEPT ![w] = Reply(op, "Missing", <<>>)]
            /\ UNCHANGED call
       ELSE /\ reply' = [reply EXCEPT ![w] = Reply(op, "Panic", <<>>)]
            /\ UNCHANGED call
    /\ UNCHANGED <<made, cast>>

\* self.store.load(&req.poll_id)? fails: the call returns the error.
CallLoadFault(w, op) ==
    /\ call[w] = NoCall
    /\ LoadFault(w)
    /\ reply' = [reply EXCEPT ![w] = Reply(op, "StorageError", <<>>)]
    /\ UNCHANGED <<call, made, cast>>

\* Polls::call(RecordVote) and Polls::call(TallyVotes) up to their load.
RecordVoteLoad(w, i, s, c, maxv) == CallLoad(w, "RecordVote", i, s, c, maxv)
RecordVoteLoadFault(w) == CallLoadFault(w, "RecordVote")
TallyVotesLoad(w, i, maxv) == CallLoad(w, "TallyVotes", i, "none", "none", maxv)
TallyVotesLoadFault(w) == CallLoadFault(w, "TallyVotes")

\* poll.call(req)? of RecordVote: the vote is put into the loaded poll.
RecordVoteApply(w) ==
    /\ call[w].op = "RecordVote"
    /\ call[w].stage = "apply"
    /\ doc' = [doc EXCEPT ![w] = Some([doc[w][1] EXCEPT
                  !.votes = PollRecordVote(@, call[w].subject, call[w].choice)])]
    /\ IF StageAfterApply(call[w].op) = "save"
       THEN /\ call' = [call EXCEPT ![w].stage = "save"]
            /\ UNCHANGED reply
       ELSE /\ call' = [call EXCEPT ![w] = NoCall]
            /\ reply' = [reply EXCEPT ![w] = Reply("RecordVote", "Ok", <<>>)]
    /\ UNCHANGED <<documents, pc, cur, pending, result, base, wins, made, cast>>

\* poll.call(req)? of TallyVotes: the tally of the loaded poll, returned.
TallyVotesApply(w) ==
    /\ call[w].op = "TallyVotes"
    /\ call[w].stage = "apply"
    /\ IF StageAfterApply(call[w].op) = "save"
       THEN /\ call' = [call EXCEPT ![w].stage = "save"]
            /\ UNCHANGED reply
       ELSE /\ call' = [call EXCEPT ![w] = NoCall]
            /\ reply' = [reply EXCEPT ![w] =
                   Reply("TallyVotes", "Ok", PollTallyVotes(doc[w][1].votes))]
    /\ UNCHANGED <<documents, doc, pc, cur, pending, result, base, wins, made, cast>>

\* self.store.save(&mut poll)?: a step A of the save; when the save returns,
\* the call returns what it returned.
CallSave(w, A) ==
    /\ call[w].stage = "save"
    /\ A
    /\ IF pc'[w] = "idle"
       THEN /\ call' = [call EXCEPT ![w] = NoCall]
            /\ reply' = [reply EXCEPT ![w] = Reply(call[w].op, result'[w].res, <<>>)]
            /\ cast' = IF call[w].op = "RecordVote" /\ result'[w].res = "Ok"
                       THEN [cast EXCEPT ![call[w].poll] =
                                (call[w].subject :> call[w].choice) @@ @]
                       ELSE cast
            /\ UNCHANGED made
       ELSE UNCHANGED svars

\* ------------------------------------------------------ next-state relations
\* The steps of load and save on the connection of caller w.
EngineNext(w, ids, maxv) ==
    \/ Direct(\E i \in ids : Load(w, i))
    \/ Direct(LoadFault(w))
    \/ Direct(SaveBeginFault(w))
    \/ Direct(SaveBegin(w, maxv))
    \/ Direct(SaveExec(w))
    \/ Direct(SaveResume(w))
    \/ Direct(SaveExecFault(w))
    \/ Direct(SaveCommit(w))
    \/ Direct(SaveCommitFault(w))

NextOver(ids, maxv) ==
    \E w \in Writers :
        \/ Direct(\E i \in ids, n \in Names : NewDoc(w, i, n))
        \/ Direct(\E n \in Names : Modify(w, n))
        \/ EngineNext(w, ids, maxv)

\* Two writers contending on one document.
Next == NextOver(OneDoc, MaxVersion)
Spec == Init /\ [][Next]_vars

\* Two writers contending on one document, with in-memory versions of the
\* callers' making.
NextForged ==
    \/ \E w \in Writers :
        Direct(\E v \in (1..MaxVersionForged) \cup {VersionMax} : ForgeVersion(w, v))
    \/ NextOver(OneDoc, MaxVersionForged)
SpecForged == Init /\ [][NextForged]_vars

\* Two writers and two documents.
NextDocs == NextOver(DocIds, MaxVersionDocs)
SpecDocs == Init /\ [][NextDocs]_vars

\* Two writers and two documents that differ by their ids alone.
NextPair ==
    \E w \in Writers :
        \/ Direct(\E i \in DocIds : NewDoc(w, i, "Dave"))
        \/ EngineNext(w, DocIds, MaxVersionPair)
SpecPair == Init /\ [][NextPair]_vars

\* Two writers of documents that carry a mailbox.
NextChatty ==
    \E w \in Writers :
        \/ Direct(\E i \in ChattyIds : NewChatty(w, i))
        \/ Direct(SendFrom(w, AMessage))
        \/ Direct(LoadNextUnsent(w))
        \/ Direct(LoadNextUnsentFault(w))
        \/ EngineNext(w, ChattyIds, MaxVersionChatty)
SpecChatty == Init /\ [][NextChatty]_vars

\* Two callers of one pool, contending on one document.
NextPool ==
    \E w \in Writers :
        \/ Outside(w, \E i \in OneDoc, n \in Names : NewDoc(w, i, n))
        \/ Outside(w, \E n \in Names : Modify(w, n))
        \/ Outside(w, LoadFault(w))
        \/ Outside(w, SaveBeginFault(w))
        \/ PoolGet(w)
        \/ OnConnection(w, \E i \in OneDoc : Load(w, i))
        \/ OnConnection(w, LoadFault(w))
        \/ OnConnection(w, SaveBeginFault(w))
        \/ OnConnection(w, SaveBegin(w, MaxVersionPool))
        \/ OnConnection(w, SaveExec(w))
        \/ OnConnection(w, SaveResume(w))
        \/ OnConnection(w, SaveExecFault(w))
        \/ OnConnection(w, SaveCommit(w))
        \/ OnConnection(w, SaveCommitFault(w))
SpecPool == Init /\ [][NextPool]_vars

\* A mailbox that is sent messages.
NextMailBox == \E msg \in Messages : Send(msg)
SpecMailBox == Init /\ [][NextMailBox]_vars

\* Identifiers generated and hashed one after the other.
NextIdGen ==
    \/ \E build \in Builds, now \in Clocks, rnd \in Randoms :
            IdGenGenerate(build, now, rnd)
    \/ \E x \in Corpus : IdHashedOf(x)
SpecIdGen == Init /\ [][NextIdGen]_vars

\* Identifiers displayed, and texts parsed.
NextIdText ==
    \/ \E u \in SampleIds : DisplayUntyped(u)
    \/ \E E \in Entities, u \in SampleIds : DisplayTyped(E, u)
    \/ \E u \in SampleIds : SerializeUntyped(u)
    \/ \E E \in Entities, u \in SampleIds : SerializeTyped(E, u)
    \/ Tamper
    \/ ParseUntyped
    \/ \E E \in Entities : ParseTyped(E)
    \/ DeserializeUntyped
    \/ \E E \in Entities : DeserializeTyped(E)
    \/ FromBytesOfToBytes
SpecIdText == Init /\ [][NextIdText]_vars

\* The steps of a call of instance w that no transport error ends, under a
\* clock that IdGen can read, the subjects in voters voting.
PollsNext(w, maxv, voters) ==
    \/ Served(\E n \in PollNames, i \in CreatedPollIds : CreatePoll(w, n, Ok(i)))
    \/ Served(\E i \in PollIds, s \in voters, c \in Choices :
                  RecordVoteLoad(w, i, s, c, maxv))
    \/ Served(RecordVoteApply(w))
    \/ Served(\E i \in PollIds : TallyVotesLoad(w, i, maxv + 1))
    \/ Served(TallyVotesApply(w))
    \/ Served(CallSave(w, SaveBegin(w, maxv)))
    \/ Served(CallSave(w, SaveExec(w)))
    \/ Served(CallSave(w, SaveResume(w)))
    \/ Served(CallSave(w, SaveCommit(w)))

\* Two instances of Polls on one store.
NextPolls == \E w \in Writers : PollsNext(w, MaxVersionPolls, Subjects)
SpecPolls == Init /\ [][NextPolls]_vars

\* Two instances of Polls on a store whose statements may fail, one subject
\* voting.
NextPollsFaults ==
    \E w \in Writers :
        \/ PollsNext(w, MaxVersionFaults, CreatedSubjectIds)
        \/ Served(RecordVoteLoadFault(w))
        \/ Served(TallyVotesLoadFault(w))
        \/ Served(CallSave(w, SaveBeginFault(w)))
        \/ Served(CallSave(w, SaveExecFault(w)))
        \/ Served(CallSave(w, SaveCommitFault(w)))
SpecPollsFaults == Init /\ [][NextPollsFaults]_vars

\* Two instances each of Subjects and of Polls on one store, the table
\* documents holding the rows of both: subjects and polls are created, with
\* identifiers that IdGen may have handed out before, and the subject votes.
NextSubjects ==
    \E w \in Writers :
        \/ Served(\E g \in GenerateOutcomes(CreatedSubjectIds) : CreateSubject(w, g))
        \/ Served(\E n \in PollNames, g \in GenerateOutcomes(CreatedPollIds) :
                  CreatePoll(w, n, g))
        \/ Served(\E i \in CreatedPollIds, s \in CreatedSubjectIds :
                      RecordVoteLoad(w, i, s, "Banana", MaxVersionSubjects))
        \/ Served(RecordVoteApply(w))
        \/ Served(CallSave(w, SaveBegin(w, MaxVersionSubjects)))
        \/ Served(CallSave(w, SaveExec(w)))
        \/ Served(CallSave(w, SaveResume(w)))
        \/ Served(CallSave(w, SaveCommit(w)))
        \/ Served(CallSave(w, SaveBeginFault(w)))
        \/ Served(CallSave(w, SaveExecFault(w)))
        \/ Served(CallSave(w, SaveCommitFault(w)))
SpecSubjects == Init /\ [][NextSubjects]_vars

\* Two writers racing to save one document, without transport errors. Each
\* caller is a thread inside a synchronous save: once the transaction is open
\* the thread goes on to the statement and to the commit, the server runs
\* the statement as soon as no lock or uncommitted key makes it wait, and a
\* waiting statement goes on when the transaction it waits for has ended.
NextRace ==
    \E w \in Writers :
        \/ Direct(NewDoc(w, "x", "Dave"))
        \/ Direct(Load(w, "x"))
        \/ Direct(SaveBegin(w, MaxVersionRace))
        \/ Direct(SaveExec(w))
        \/ Direct(SaveResume(w))
        \/ Direct(SaveCommit(w))
FairRace ==
    \A w \in Writers :
        /\ WF_vars(Direct(SaveExec(w)))
        /\ WF_vars(Direct(SaveResume(w)))
        /\ WF_vars(Direct(SaveCommit(w)))
SpecRace == Init /\ [][NextRace]_vars /\ FairRace

\* ------------------------------------------------------------ the claims
\* The key of the row writer w's document is stored under.
KeyOf(w) == IdToString(doc[w][1].id)

StoredVersions(key) == {r.body.version : r \in RowsFor(documents, key)}

\* The row a load by the id of writer w's document would return.
RowOf(d) == [id |-> IdToString(d.id), body |-> ToJson(d)]

SaveOk == Ret("save", "Ok")
SaveErrors == {"ConcurrencyError", "StorageError", "UniqueViolation"}

\* Writer w's statement step: it leaves "tx" in this step.
ExecStep(w) == pc[w] = "tx" /\ pc'[w] # "tx"
\* ... and no prepare/execute error was injected in it.
ExecStepNoFault(w) == ExecStep(w) /\ result'[w].res # "StorageError"
\* Writer w's commit succeeds in this step.
CommitStep(w) == pc[w] = "exec" /\ result'[w] = SaveOk
\* The commit of writer w's save is carried out in this step, whatever the
\* caller is told.
CommitCarriedStep(w) ==
    /\ pc[w] = "exec"
    /\ pc'[w] = "idle"
    /\ documents' = (documents \ pending[w][1].old) \cup pending[w][1].new
\* Writer w's save is called in this step and gets its transaction.
SaveCallStep(w) ==
    /\ pc[w] = "idle"
    /\ result'[w].op = "save"
    /\ result'[w].res \in {"Running", "Panic"}
\* Writer w's save returns an error in this step.
SaveErrorStep(w) ==
    /\ pc'[w] = "idle"
    /\ result'[w].op = "save"
    /\ result'[w].res \in SaveErrors
    /\ (pc[w] # "idle" \/ result'[w] # result[w])

\* C1 (as claimed): of the concurrent saves of copies of one document that
\* carry the same pre-save version, inserts (version 0) and updates alike, at
\* most one succeeds and every other one fails with ConcurrencyError; the
\* store never holds two rows of one id, and a stored body is wholly the
\* winner's.
C1_OneWinnerLosersGetConcurrencyError ==
    [][\A w \in Writers :
        /\ CommitStep(w) => <<KeyOf(w), cur[w]>> \notin wins
        /\ (/\ pc[w] \in {"tx", "wait"}
            /\ <<KeyOf(w), cur[w]>> \in wins
            /\ pc'[w] = "idle"
            /\ result'[w].res # "StorageError")
           => result'[w].res = "ConcurrencyError"
        /\ \A i \in DocIds : Cardinality(RowsFor(documents', IdToString(i))) <= 1
        /\ CommitStep(w) => RowsFor(documents', KeyOf(w)) = {RowOf(doc'[w][1])}
      ]_vars

\* C2 (as claimed): a successful save only ever replaces a stored body that
\* the saving copy was loaded from or itself last wrote, also when the copy is
\* saved again after a save of it failed.
C2_NeverOverwritesUnobserved ==
    [][\A w \in Writers :
        CommitStep(w) => \A r \in pending[w][1].old : base[w] = Some(r.body)
      ]_vars

\* The copy's pre-save version is the one it was created, loaded or last
\* successfully saved with: no failed save has bumped it since.
VersionAsObserved(w) ==
    IF base[w] = None THEN cur[w] = VersionDefault ELSE cur[w] = base[w][1].version

\* C2 (amended): a successful save of a copy whose pre-save version is the
\* version it was loaded with or itself last wrote replaces only the stored
\* body that copy was loaded from or last wrote.
C2_ObservedVersionNeverOverwritesUnobserved ==
    [][\A w \in Writers :
        (CommitStep(w) /\ VersionAsObserved(w))
            => \A r \in pending[w][1].old : base[w] = Some(r.body)
      ]_vars

\* A loaded copy was saved over the version it observed while the other
\* writer's stale save of the same document failed.
C2_Witness ==
    \E w \in Writers, u \in Writers :
        /\ w # u
        /\ doc[w] # None /\ doc[u] # None
        /\ doc[w][1].id = doc[u][1].id
        /\ result[w] = SaveOk
        /\ doc[w][1].version = 2
        /\ result[u] = Ret("save", "ConcurrencyError")

\* C3: a save of a version-0 document whose id has no row inserts it: the
\* statement writes one row, the commit leaves the in-memory version at 1 and
\* the document stored, a load by the id returns that document with version
\* 1, and no save of another document touches the row.
C3_SaveNewThenLoad ==
    [][\A w \in Writers :
        /\ (/\ ExecStepNoFault(w)
            /\ cur[w] = VersionDefault
            /\ RowsFor(documents, KeyOf(w)) = {}
            /\ ~PrimaryKeyWait(w, KeyOf(w)))
           => /\ pc'[w] = "exec"
              /\ pending'[w][1].new = {RowOf(doc[w][1])}
        /\ (CommitStep(w) /\ cur[w] = VersionDefault)
           => /\ doc'[w][1].version = 1
              /\ RowsFor(documents', KeyOf(w)) = {RowOf(doc'[w][1])}
              /\ {FromJson(EntityOf(doc[w][1].id), r.body) : r \in LoadRows(w, KeyOf(w))'}
                    = {doc'[w]}
        /\ CommitStep(w)
           => \A i \in DocIds :
                IdToString(i) # KeyOf(w)
                    => RowsFor(documents', IdToString(i)) = RowsFor(documents, IdToString(i))
      ]_vars

\* A document was inserted and is stored with version 1 beside another
\* document.
C3_Witness ==
    \E w \in Writers :
        /\ result[w] = SaveOk
        /\ doc[w][1].version = 1
        /\ RowOf(doc[w][1]) \in documents
        /\ \E r \in documents : r.id # KeyOf(w)

\* C4: a save of a document whose version v >= 1 is the stored version of its
\* row updates it: the statement matches the row, the commit replaces the
\* stored body by the document's, the in-memory and the stored version are
\* v + 1, and a load by the id returns the new body.
C4_UpdateOnMatchingVersion ==
    [][\A w \in Writers :
        /\ (/\ ExecStepNoFault(w)
            /\ cur[w] >= 1
            /\ StoredVersions(KeyOf(w)) = {cur[w]})
           => /\ pc'[w] = "exec"
              /\ pending'[w][1].new = {RowOf(doc[w][1])}
        /\ (CommitStep(w) /\ cur[w] >= 1)
           => /\ StoredVersions(KeyOf(w)) = {cur[w]}
              /\ doc'[w][1].version = cur[w] + 1
              /\ RowsFor(documents', KeyOf(w)) = {RowOf(doc'[w][1])}
              /\ {r.body.version : r \in RowsFor(documents', KeyOf(w))} = {cur[w] + 1}
              /\ {FromJson(EntityOf(doc[w][1].id), r.body) : r \in LoadRows(w, KeyOf(w))'}
                    = {doc'[w]}
      ]_vars

\* A stored document was updated to version 2 with a body that differs from
\* the one it replaced.
C4_Witness ==
    \E w \in Writers :
        /\ result[w] = SaveOk
        /\ doc[w][1].version = 2
        /\ RowOf(doc[w][1]) \in documents
        /\ <<KeyOf(w), 1>> \in wins

\* C5 (as claimed): a save of a copy whose version v >= 1 differs from the
\* stored version of the row of its id, a version the store has left behind
\* or one it never reached, fails with ConcurrencyError (it does not unwind,
\* and only a transport error is returned in its place) and leaves the stored
\* rows as they are.
C5_StaleOrBogusVersionFails ==
    [][\A w \in Writers :
        /\ (/\ SaveCallStep(w)
            /\ doc[w][1].version # VersionDefault
            /\ RowsFor(documents, KeyOf(w)) # {}
            /\ doc[w][1].version \notin StoredVersions(KeyOf(w)))
           => /\ result'[w] = Ret("save", "Running")
              /\ documents' = documents
        /\ (/\ ExecStep(w)
            /\ cur[w] # VersionDefault
            /\ RowsFor(documents, KeyOf(w)) # {}
            /\ cur[w] \notin StoredVersions(KeyOf(w)))
           => /\ pc'[w] = "idle"
              /\ result'[w].res \in {"ConcurrencyError", "StorageError"}
              /\ ExecStepNoFault(w) => result'[w] = Ret("save", "ConcurrencyError")
              /\ documents' = documents
      ]_vars


\* C6: a save of a copy whose version is still 0 while a row of its id is
\* stored fails with ConcurrencyError and leaves the stored row as it is.
C6_InsertOverExistingFails ==
    [][\A w \in Writers :
        (/\ ExecStep(w)
         /\ cur[w] = VersionDefault
         /\ RowsFor(documents, KeyOf(w)) # {})
        => /\ pc'[w] = "idle"
           /\ result'[w].res \in {"ConcurrencyError", "StorageError"}
           /\ ExecStepNoFault(w) => result'[w] = Ret("save", "ConcurrencyError")
           /\ documents' = documents
      ]_vars

\* A version-0 copy of a stored document was saved and the save failed, the
\* stored row being another writer's.
C6_Witness ==
    \E w \in Writers :
        /\ result[w] = Ret("save", "ConcurrencyError")
        /\ doc[w][1].version = 1
        /\ base[w] = None
        /\ RowsFor(documents, KeyOf(w)) # {}
        /\ RowOf(doc[w][1]) \notin documents

\* C7 (as claimed): a save of a document whose id has no row and whose
\* version is not 0 fails with ConcurrencyError (it does not unwind, and only
\* a transport error is returned in its place) and creates no row: a load by
\* the id returns None afterwards.
C7_NonzeroVersionWithoutRowFails ==
    [][\A w \in Writers :
        /\ (/\ SaveCallStep(w)
            /\ doc[w][1].version # VersionDefault
            /\ RowsFor(documents, KeyOf(w)) = {})
           => /\ result'[w] = Ret("save", "Running")
              /\ documents' = documents
        /\ (/\ ExecStep(w)
            /\ cur[w] # VersionDefault
            /\ RowsFor(documents, KeyOf(w)) = {})
           => /\ pc'[w] = "idle"
              /\ result'[w].res \in {"ConcurrencyError", "StorageError"}
              /\ ExecStepNoFault(w) => result'[w] = Ret("save", "ConcurrencyError")
              /\ documents' = documents
              /\ LoadRows(w, KeyOf(w))' = {}
      ]_vars

\* The version the document had when the save was called.
VersionAtCall(w) == IF pc[w] = "idle" THEN doc[w][1].version ELSE cur[w]

\* C8 (as claimed): every save that returns an error, a failure to start the
\* transaction or to check out a connection included, leaves the in-memory
\* version one above the version it had before the call.
C8_EveryFailedSaveBumpsVersion ==
    [][\A w \in Writers :
        SaveErrorStep(w) => doc'[w][1].version = VersionAtCall(w) + 1
      ]_vars

\* C8 (amended): a save that returns an error after its transaction was
\* started (a concurrency error, or an error of prepare, serialization,
\* execute or commit) leaves the in-memory version one above the version it
\* had before the call, as a u64 without overflow checks counts: 0 after
\* u64::MAX; a save that fails to start the transaction or to check out a
\* pooled connection leaves the version as it was.
C8_FailedSaveBumpsVersionOnceStarted ==
    [][\A w \in Writers :
        SaveErrorStep(w)
            => IF pc[w] = "idle"
               THEN doc'[w] = doc[w]
               ELSE doc'[w][1].version = IF cur[w] = VersionMax THEN 0 ELSE cur[w] + 1
      ]_vars

\* A save of a never-saved document failed with ConcurrencyError and left
\* version 1, and a save called with a forged u64::MAX failed with
\* ConcurrencyError and left version 0.
C8_Witness ==
    \E w \in Writers, u \in Writers :
        /\ result[w] = Ret("save", "ConcurrencyError")
        /\ doc[w][1].version = 1
        /\ base[w] = None
        /\ result[u] = Ret("save", "ConcurrencyError")
        /\ doc[u][1].version = 0
        /\ RowsFor(documents, KeyOf(u)) # {}

\* The rows the statement of writer w's save affects.
RowsAffected(w) ==
    IF TakesInsertBranch(cur[w])
    THEN Cardinality(InsertCandidate(ToJson(doc[w][1])))
    ELSE Cardinality(UpdateMatches(ToJson(doc[w][1]), cur[w]))

\* C9: when the insert or the conditional update affects zero rows the save
\* returns ConcurrencyError without committing: no write is kept and the
\* stored rows are the same before and after.
C9_ZeroRowsNotCommitted ==
    [][\A w \in Writers :
        (ExecStep(w) /\ RowsAffected(w) = 0)
        => /\ pc'[w] = "idle"
           /\ pending'[w] = None
           /\ result'[w].res \in {"ConcurrencyError", "StorageError"}
           /\ documents' = documents
      ]_vars

\* A statement affected zero rows and the save returned ConcurrencyError
\* while rows are stored.
C9_Witness ==
    \E w \in Writers :
        /\ result[w] = Ret("save", "ConcurrencyError")
        /\ pending[w] = None
        /\ documents # {}

\* C10 (as claimed): a load sees committed rows only, whatever saves are in
\* flight; the row of a document changes in the one step of the commit of a
\* save that succeeds, to the whole body of the committing writer with the
\* version one above the replaced one; and a save that ends in failure
\* changes no row.
C10_LoadSeesWholeCommittedRows ==
    [][/\ \A w \in Writers :
            (\E i \in DocIds : Load(w, i)) /\ result'[w] = Ret("load", "Some")
                => \E r \in documents : doc'[w] = FromJson("ADocument", r.body)
       /\ \A i \in DocIds :
            LET before == RowsFor(documents, IdToString(i))
                after == RowsFor(documents', IdToString(i))
            IN  before # after
                => \E w \in Writers :
                    /\ CommitStep(w)
                    /\ after = {RowOf(doc'[w][1])}
                    /\ \A r \in before : r.body.version + 1 = doc'[w][1].version
                    /\ before = {} => doc'[w][1].version = 1
       /\ \A w \in Writers : SaveErrorStep(w) => documents' = documents
      ]_vars

\* C10 (amended): a load sees committed rows only, whatever saves are in
\* flight; the row of a document changes in the one step in which the commit
\* of a save is carried out, to the whole body of the committing writer with
\* the version one above the replaced one; a save that ends in failure before
\* its commit changes no row, and a save whose commit returns an error has
\* either changed no row or, the commit carried out and its reply lost, stored
\* its whole row.
C10_LoadSeesWholeRowsOfCarriedCommits ==
    [][/\ \A w \in Writers :
            (\E i \in DocIds : Load(w, i)) /\ result'[w] = Ret("load", "Some")
                => \E r \in documents : doc'[w] = FromJson("ADocument", r.body)
       /\ \A i \in DocIds :
            LET before == RowsFor(documents, IdToString(i))
                after == RowsFor(documents', IdToString(i))
            IN  before # after
                => \E w \in Writers :
                    /\ CommitCarriedStep(w)
                    /\ result'[w].res \in {"Ok", "StorageError"}
                    /\ after = {RowOf(doc'[w][1])}
                    /\ \A r \in before : r.body.version + 1 = doc'[w][1].version
                    /\ before = {} => doc'[w][1].version = 1
       /\ \A w \in Writers :
            (SaveErrorStep(w) /\ pc[w] # "exec") => documents' = documents
       /\ \A w \in Writers :
            (SaveErrorStep(w) /\ pc[w] = "exec")
                => \/ documents' = documents
                   \/ /\ result'[w] = Ret("save", "StorageError")
                      /\ RowsFor(documents', KeyOf(w)) = {RowOf(doc'[w][1])}
      ]_vars

\* A load returned the committed row while another writer's update of that
\* row had been written and not yet committed.
C10_Witness ==
    \E w \in Writers, u \in Writers :
        /\ result[w] = Ret("load", "Some")
        /\ pc[u] = "exec"
        /\ pending[u][1].kind = "update"
        /\ \E r \in pending[u][1].old : doc[w] = FromJson("ADocument", r.body)
        /\ \A r \in pending[u][1].new : doc[w][1].name # r.body.name

\* C11 (as claimed): from an empty store, every stored _version is at least
\* 1 and is 1 right after the insert of its row; it changes only in the
\* commit of a save of that document that succeeds, which leaves it exactly
\* one above the value it replaces, whatever in-memory versions the callers
\* present.
C11_StoredVersionStepsByOne ==
    [][\A i \in DocIds :
        LET key == IdToString(i)
            before == StoredVersions(key)
            after == StoredVersions(key)'
        IN  /\ \A v \in after : VersionLess(0, v)
            /\ (before = {} /\ after # {}) => after = {1}
            /\ before # after
               => /\ \E w \in Writers : CommitStep(w) /\ KeyOf(w) = key
                  /\ before # {}
                     => \E v \in before :
                            before = {v} /\ v # VersionMax /\ after = {v + 1}
      ]_vars

\* C11 (amended): from an empty store, every stored _version is at least 1
\* and is 1 right after the insert of its row; it changes only in the step in
\* which the commit of a save of that document is carried out (the save
\* returns Ok, or the error of a commit whose reply was lost), which leaves
\* it exactly one above the value it replaces: it never decreases, skips no
\* value and does not wrap, whatever in-memory versions the callers present.
C11_StoredVersionStepsByOneAtCommit ==
    [][\A i \in DocIds :
        LET key == IdToString(i)
            before == StoredVersions(key)
            after == StoredVersions(key)'
        IN  /\ \A v \in after : VersionLess(0, v)
            /\ (before = {} /\ after # {}) => after = {1}
            /\ before # after
               => /\ \E w \in Writers :
                        /\ CommitCarriedStep(w)
                        /\ KeyOf(w) = key
                        /\ result'[w].res \in {"Ok", "StorageError"}
                  /\ before # {}
                     => \E v \in before :
                            before = {v} /\ v # VersionMax /\ after = {v + 1}
      ]_vars

\* The stored version has been stepped to 3 while callers presented in-memory
\* versions the store never held, u64::MAX among them, and were refused.
C11_Witness ==
    \E w \in Writers, u \in Writers :
        /\ StoredVersions(IdToString("x")) = {3}
        /\ wins = {<<IdToString("x"), 0>>, <<IdToString("x"), 1>>, <<IdToString("x"), 2>>}
        /\ result[w] = Ret("save", "ConcurrencyError")
        /\ doc[w][1].version = 2
        /\ result[u] = Ret("save", "ConcurrencyError")
        /\ doc[u][1].version = 0

\* C12 (as claimed): between its calls, a document object made by
\* new_with_id and changed by save alone has version 0 exactly when no save
\* of it has succeeded (base[w] is None exactly for such an object with no
\* committed save; a loaded copy has a base and a version of at least 1).
C12_VersionZeroIffNeverSaved ==
    \A w \in Writers :
        (pc[w] = "idle" /\ doc[w] # None)
            => (doc[w][1].version = VersionDefault <=> base[w] = None)

\* C12 (amended): a document object made by new_with_id starts at version 0,
\* every save of it that gets its transaction started adds exactly 1, whether
\* it then succeeds or fails, and nothing else changes the version; so the
\* version is 0 exactly when no save of the object has started its
\* transaction, and an object that was saved successfully has a version of at
\* least 1.
C12_VersionZeroIffNoSaveStarted ==
    [][\A w \in Writers :
        LET created == \E i \in DocIds, n \in Names : NewDoc(w, i, n)
            loaded == \E i \in DocIds : Load(w, i)
            started == pc[w] = "idle" /\ pc'[w] = "tx"
        IN  /\ created => doc'[w][1].version = 0
            /\ started => doc'[w][1].version = doc[w][1].version + 1
            /\ (doc[w] # None /\ ~created /\ ~loaded /\ ~started)
               => doc'[w][1].version = doc[w][1].version
            /\ CommitStep(w) => doc'[w][1].version >= 1
            /\ (doc'[w] # None /\ doc'[w][1].version = 0) => base'[w] = None
      ]_vars

\* One object has been through two saves that both failed and holds version
\* 2 with no save of it committed, beside an object saved once with success.
C12_Witness ==
    \E w \in Writers, u \in Writers :
        /\ pc[w] = "idle"
        /\ base[w] = None
        /\ doc[w] # None
        /\ doc[w][1].version = 2
        /\ result[w].res \in SaveErrors
        /\ result[u] = SaveOk
        /\ doc[u][1].version = 1

\* C13: a load returns None exactly when no row is stored under the string
\* form of the id, otherwise the document of the row stored under it (its
\* serialization is the stored body), whatever the in-memory copies hold;
\* and it leaves the stored rows and the writes in flight as they are.
C13_LoadReturnsStoredOrNone ==
    [][\A w \in Writers, i \in DocIds :
        Load(w, i)
        => LET stored == {r \in documents : TextBytes(r.id) = Displays[i]}
           IN  /\ result'[w] = Ret("load", "None") <=> stored = {}
               /\ result'[w] = Ret("load", "None") => doc'[w] = doc[w]
               /\ stored # {}
                  => /\ result'[w] = Ret("load", "Some")
                     /\ doc'[w] # None
                     /\ doc'[w][1].id = i
                     /\ \E r \in stored : r.body = ToJson(doc'[w][1])
               /\ documents' = documents
               /\ pending' = pending
      ]_vars

\* A load of an id with no row returned None while the other document is
\* stored, and a load of the stored one returned it to a caller while the
\* other caller holds an unsaved copy of it with another version.
C13_Witness ==
    \E w \in Writers, u \in Writers :
        /\ result[w] = Ret("load", "None")
        /\ doc[w] # None
        /\ doc[w][1].version = 0
        /\ result[u] = Ret("load", "Some")
        /\ doc[u][1].id = doc[w][1].id
        /\ doc[u][1].version = 1
        /\ RowOf(doc[u][1]) \in documents
        /\ Cardinality({r.id : r \in documents}) = 1

\* The version precondition of writer w's save, on the rows of its own id: no
\* row for a version-0 document, the row at the document's version otherwise.
OwnPrecondition(w) ==
    IF cur[w] = VersionDefault
    THEN RowsFor(documents, KeyOf(w)) = {}
    ELSE StoredVersions(KeyOf(w)) = {cur[w]}

\* Another writer has a save of the same id in flight.
SameIdInFlight(w) ==
    \E u \in Writers \ {w} : pc[u] # "idle" /\ KeyOf(u) = KeyOf(w)

\* C14: saves of documents with distinct ids do not conflict. A step of a save
\* of another id changes no row of a writer's id; a statement never waits for
\* a save of another id; with its own version precondition satisfied and no
\* save of the same id in flight it writes its row, whatever saves of other
\* ids are in flight, and its commit stores the document; and a save fails
\* with a concurrency (or duplicate-key) error only when the precondition on
\* the rows of its own id is not met.
C14_DistinctIdsNeverConflict ==
    [][\A w \in Writers :
        /\ \A u \in Writers \ {w} :
            (/\ doc[w] # None
             /\ pc[u] # "idle"
             /\ KeyOf(u) # KeyOf(w)
             /\ pc'[u] # pc[u])
            => RowsFor(documents', KeyOf(w)) = RowsFor(documents, KeyOf(w))
        /\ (pc[w] = "tx" /\ ~SameIdInFlight(w)) => ENABLED SaveExec(w)
        /\ (ExecStepNoFault(w) /\ OwnPrecondition(w) /\ ~SameIdInFlight(w))
           => /\ pc'[w] = "exec"
              /\ pending'[w][1].new = {RowOf(doc[w][1])}
        /\ (CommitStep(w) /\ ~SameIdInFlight(w))
           => RowsFor(documents', KeyOf(w)) = {RowOf(doc'[w][1])}
        /\ (/\ pc[w] \in {"tx", "wait"}
            /\ pc'[w] = "idle"
            /\ result'[w].res \in {"ConcurrencyError", "UniqueViolation"})
           => ~OwnPrecondition(w)
      ]_vars

\* The saves of two documents with distinct ids, an insert of one and an
\* update of the other, have both written and neither has committed yet.
C14_Witness ==
    \E w \in Writers, u \in Writers :
        /\ pc[w] = "exec"
        /\ pc[u] = "exec"
        /\ KeyOf(w) # KeyOf(u)
        /\ pending[w][1].kind = "insert"
        /\ pending[u][1].kind = "update"

\* C15: once a row is stored under an id, a row is stored under that id in
\* every later state: no step of a load or of a save, successful or failed,
\* removes one (nor leaves two).
C15_RowsAreNeverRemoved ==
    [][\A i \in DocIds :
        LET before == RowsFor(documents, IdToString(i))
            after == RowsFor(documents', IdToString(i))
        IN  before # {} => Cardinality(after) = Cardinality(before)
      ]_vars

\* A row stored and since updated is still there after a save of a copy of
\* it failed and a load read it.
C15_Witness ==
    \E w \in Writers, u \in Writers :
        /\ StoredVersions(IdToString("x")) = {2}
        /\ result[w] = Ret("save", "ConcurrencyError")
        /\ result[u] = Ret("load", "Some")
        /\ doc[u][1].version = 2

\* Writer w's save returns a transport or storage error in this step, raised
\* before its commit: by the checkout or transaction(), or by prepare_cached,
\* the serialization or execute (a duplicate key included).
FaultBeforeCommit(w) ==
    /\ SaveErrorStep(w)
    /\ pc[w] \in {"idle", "tx", "wait"}
    /\ result'[w].res \in {"StorageError", "UniqueViolation"}

\* C16: a save that meets a transport or storage error before its commit
\* returns that error with the store unchanged: no row inserted or updated,
\* and nothing of the call left in flight to be stored later.
C16_FaultBeforeCommitStoresNothing ==
    [][\A w \in Writers :
        FaultBeforeCommit(w)
        => /\ documents' = documents
           /\ pending'[w] = None
           /\ pc'[w] = "idle"
      ]_vars

\* The update of a stored document met a storage error: the stored row is
\* still the one before the call, the caller's version is bumped.
C16_Witness ==
    \E w \in Writers :
        /\ result[w] = Ret("save", "StorageError")
        /\ base[w] # None
        /\ doc[w][1].version = base[w][1].version + 1
        /\ doc[w][1].name # base[w][1].name
        /\ RowsFor(documents, KeyOf(w)) = {[id |-> KeyOf(w), body |-> base[w][1]]}

\* The step is one of caller w: the other callers are where they were.
StepOf(w) ==
    \A u \in Writers \ {w} :
        /\ conns'[u] = conns[u]
        /\ inCall'[u] = inCall[u]
        /\ pc'[u] = pc[u]
        /\ doc'[u] = doc[u]
        /\ result'[u] = result[u]

\* The call caller w made on the pool returns in this step.
CallEnds(w) == inCall[w] /\ StepOf(w) /\ pc'[w] = "idle"

\* C17: a call on the pool checks out exactly one connection, holds that
\* same connection until it returns and gives it back when it returns, with
\* a result or with an error; the steps of a save in flight are made on a
\* connection held; no connection is held by two callers; and with no call
\* in flight no connection is checked out.
C17_OneConnectionPerCall ==
    [][/\ \A w \in Writers :
            /\ (~inCall[w] /\ inCall'[w]) => Cardinality(conns'[w]) = 1
            /\ (inCall[w] /\ ~CallEnds(w)) => (inCall'[w] /\ conns'[w] = conns[w])
            /\ CallEnds(w) => (~inCall'[w] /\ conns'[w] = {})
            /\ pc'[w] # "idle" => Cardinality(conns'[w]) = 1
            /\ \A u \in Writers \ {w} : conns'[w] \cap conns'[u] = {}
       /\ (\A w \in Writers : ~inCall'[w]) => (\A w \in Writers : conns'[w] = {})
      ]_vars

\* A caller whose earlier save returned a concurrency error is in a new call
\* while the other caller's save is in flight, each on a connection of its
\* own.
C17_Witness ==
    \E w \in Writers, u \in Writers :
        /\ pc[w] = "exec"
        /\ Cardinality(conns[w]) = 1
        /\ inCall[u]
        /\ pc[u] = "idle"
        /\ result[u] = Ret("save", "ConcurrencyError")
        /\ Cardinality(conns[u]) = 1
        /\ conns[u] # conns[w]

\* A step of load or save made directly on a connection by caller w, or of
\* what the caller does to its document between calls.
EngineStep(w) ==
    \/ \E i \in OneDoc, n \in Names : NewDoc(w, i, n)
    \/ \E n \in Names : Modify(w, n)
    \/ \E i \in OneDoc : Load(w, i)
    \/ LoadFault(w)
    \/ SaveBeginFault(w)
    \/ SaveBegin(w, MaxVersionPool)
    \/ SaveExec(w)
    \/ SaveResume(w)
    \/ SaveExecFault(w)
    \/ SaveCommit(w)
    \/ SaveCommitFault(w)

\* C18: the calls made on the pool refine the calls made directly on a
\* connection. Every step that changes the store, a document, a result or
\* the position of a save is a step of the engine's load or save with the
\* same result, the same change of the in-memory version and the same store
\* after it; the checkout itself changes none of them; and a connection once
\* checked out, the statement and the commit of a save go on as they would
\* directly.
C18_PoolRefinesEngine ==
    [][/\ \E w \in Writers : EngineStep(w)
       /\ \A w \in Writers :
            /\ (pc[w] = "tx" /\ ENABLED SaveExec(w))
               => ENABLED OnConnection(w, SaveExec(w))
            /\ pc[w] = "exec" => ENABLED OnConnection(w, SaveCommit(w))
      ]_evars

\* A document saved through the pool was loaded through the pool: the load
\* returned it as stored, with version 1, and no connection is checked out.
C18_Witness ==
    \E w \in Writers, u \in Writers :
        /\ w # u
        /\ result[w] = SaveOk
        /\ doc[w][1].version = 1
        /\ result[u] = Ret("load", "Some")
        /\ doc[u] = doc[w]
        /\ doc[u][1].name = "Dave"
        /\ RowOf(doc[u][1]) \in documents
        /\ \A x \in Writers : conns[x] = {} /\ ~inCall[x]

\* The distinct messages among those sent.
DistinctSent(log) == {log[k] : k \in 1..Len(log)}

\* C19: a send of a message the mailbox holds leaves the outgoing set as it
\* is, and after every sequence of sends the size of the outgoing set is the
\* number of distinct messages sent.
C19_SendIsIdempotent ==
    [][\A msg \in Messages :
        Send(msg)
        => /\ msg \in mailbox => mailbox' = mailbox
           /\ msg \in mailbox'
           /\ Cardinality(mailbox') = Cardinality(DistinctSent(sends'))
      ]_vars

\* A message was sent twice, then another one: the outgoing set has size 2.
C19_Witness ==
    /\ Len(sends) = 3
    /\ sends[1] = sends[2]
    /\ sends[3] # sends[1]
    /\ Cardinality(mailbox) = 2

\* C20: the mailbox is stored by the save that stores the body. The commit
\* of an insert or an update of a document with a non-empty outgoing set
\* leaves its row, mailbox included, among the stored rows with a non-empty
\* outgoing set; load_next_unsent returns None exactly when every stored
\* body has an empty outgoing set, otherwise a stored document with a
\* non-empty one; and it leaves the stored rows as they are, so the pending
\* documents are pending for the next query too.
C20_MailBoxStoredWithBody ==
    [][\A w \in Writers :
        LET unsent == {r \in documents : r.body.outgoing # {}}
        IN  /\ (CommitStep(w) /\ doc[w][1].outgoing # {})
               => /\ RowsFor(documents', KeyOf(w)) = {RowOf(doc'[w][1])}
                  /\ \E r \in documents' :
                        r.id = KeyOf(w) /\ r.body.outgoing = doc[w][1].outgoing
            /\ LoadNextUnsent(w)
               => /\ result'[w] = Ret("load_next_unsent", "None") <=> unsent = {}
                  /\ unsent # {}
                     => /\ result'[w] = Ret("load_next_unsent", "Some")
                        /\ doc'[w][1].outgoing # {}
                        /\ RowOf(doc'[w][1]) \in unsent
                  /\ documents' = documents
                  /\ ENABLED LoadNextUnsent(w)
      ]_vars

\* The query found nothing while the stored mailbox was empty, and after an
\* update that stored a message it returned the document, at version 2.
C20_Witness ==
    \E w \in Writers, u \in Writers :
        /\ result[u] = Ret("load_next_unsent", "None")
        /\ result[w] = Ret("load_next_unsent", "Some")
        /\ doc[w][1].version = 2
        /\ doc[w][1].outgoing = {AMessage}
        /\ RowOf(doc[w][1]) \in documents

\* ------------------------------------------------- identifier claims
\* str::starts_with.
StartsWith(s, prefix) ==
    Len(s) >= Len(prefix) /\ SubSeq(s, 1, Len(prefix)) = prefix

\* The text is the display just made, and the parser named has parsed it.
ParsedBack(form, parser) ==
    /\ ~tampered
    /\ shown.form = form
    /\ outcome.parser = parser
    /\ outcome.E = shown.E

\* C21: an identifier that is displayed and parsed back is the identifier
\* again: typed, with the prefix of its entity, and untyped, as a str and as
\* JSON; and from_bytes of its to_bytes is the identifier.
C21_RoundTrip ==
    /\ ParsedBack("untyped", "untyped") => outcome.res = Ok(shown.u)
    /\ ParsedBack("typed", "typed") => outcome.res = Ok(Typed(shown.E, shown.u))
    /\ ParsedBack("json-untyped", "json-untyped") => outcome.res = Ok(shown.u)
    /\ ParsedBack("json-typed", "json-typed") =>
           outcome.res = Ok(Typed(shown.E, shown.u))
    /\ outcome.parser = "from_bytes" => outcome.res = Ok(shown.u)

\* Id::<Canary>::hashed(&"Hi!") shown as canary.000000000000017fnibsj24gi0
\* and parsed back.
C21_Witness ==
    /\ ParsedBack("typed", "typed")
    /\ shown.u = Hashed(Hi)
    /\ text = Str(<<"c", "a", "n", "a", "r", "y", ".", "0", "0", "0", "0", "0",
                    "0", "0", "0", "0", "0", "0", "0", "0", "1", "7", "f", "n",
                    "i", "b", "s", "j", "2", "4", "g", "i", "0">>)
    /\ outcome.res.tag = "Ok"

\* The identifiers i and j of issued, both from generate().
BothGenerated(i, j) ==
    /\ i \in 1..Len(issued) /\ j \in 1..Len(issued)
    /\ issued[i].by = "generate" /\ issued[j].by = "generate"

\* C22: the identifiers of successive generate() calls are pairwise distinct,
\* also when the calls read the same clock stamp.
C22_GeneratedIdsAreDistinct ==
    \A i, j \in 1..Len(issued) :
        (i < j /\ BothGenerated(i, j)) => ~IdEq(issued[i].id, issued[j].id)

\* Less on u64 pairs, as Less on the 128 bits of stamp followed by random.
LexLess(a, b) ==
    LET x == a.stamp \o a.random
        y == b.stamp \o b.random
    IN  \E k \in 1..128 : x[k] < y[k] /\ \A n \in 1..(k - 1) : x[n] = y[n]

\* C23 (as claimed): identifiers compare by (stamp, random), the stamp first:
\* the smaller stamp compares less whatever the random parts, so of two
\* identifiers generated one after the other at different readings of the
\* clock, the one generated first compares less; two distinct identifiers
\* compare strictly less or strictly greater; typed identifiers compare as
\* their untyped values.
C23_OrderedByStampThenRandom ==
    \A i, j \in 1..Len(issued) :
        LET a == issued[i].id
            b == issued[j].id
        IN  /\ IdLess(a, b) <=> LexLess(Untyped(a), Untyped(b))
            /\ U64Less(a.inner.stamp, b.inner.stamp) => IdLess(a, b) /\ ~IdLess(b, a)
            /\ (i < j /\ BothGenerated(i, j) /\ issued[i].now # issued[j].now)
               => IdLess(a, b) /\ ~IdLess(b, a)
            /\ ~IdEq(a, b) => (IdLess(a, b) <=> ~IdLess(b, a))
            /\ IdEq(a, b) => ~IdLess(a, b)
            /\ IdLess(a, b) <=> UntypedLess(Untyped(a), Untyped(b))

\* C24 (as claimed): hashed of equal values is the same identifier, with
\* stamp 0, and hashed of different values are different identifiers.
C24_HashedIsDeterministic ==
    \A i, j \in 1..Len(issued) :
        (issued[i].by = "hashed" /\ issued[j].by = "hashed") =>
            /\ issued[i].id.inner.stamp = U64(0, 0, 0, 0)
            /\ issued[i].x = issued[j].x => IdEq(issued[i].id, issued[j].id)
            /\ issued[i].x # issued[j].x => ~IdEq(issued[i].id, issued[j].id)

\* The SipHash-2-4 digests, under the keys (0, 0), of the bytes of these strs
\* followed by 0xff, from the reference implementation of the hash.
Digest(x) ==
    IF x = Hi THEN U64(1263, 48279, 51592, 37008)
    ELSE IF x = Boo THEN U64(43821, 29008, 45967, 26894)
    ELSE IF x = Bob THEN U64(2241, 9415, 47729, 16608)
    ELSE U64(62223, 21907, 34378, 30897)

\* C24 (amended): hashed(x) is the identifier with stamp 0 and, as its random
\* part, the SipHash-2-4 digest under the fixed keys (0, 0) of what the Hash of
\* x writes, a function of x alone: two calls with equal x yield equal
\* identifiers, and calls with different x yield different identifiers for
\* the strs the tests hash, not for every x.
C24_HashedIsTheDigestOfItsArgument ==
    \A i, j \in 1..Len(issued) :
        (issued[i].by = "hashed" /\ issued[j].by = "hashed") =>
            /\ issued[i].id.inner = UntypedIdOf(U64(0, 0, 0, 0), Digest(issued[i].x))
            /\ issued[i].x = issued[j].x => IdEq(issued[i].id, issued[j].id)
            /\ (/\ issued[i].x # issued[j].x
                /\ issued[i].x \in TestCorpus
                /\ issued[j].x \in TestCorpus)
               => ~IdEq(issued[i].id, issued[j].id)

\* "Hi!" hashed twice and "boo" once; "Hi!" is 000000000000017fnibsj24gi0.
C24_Witness ==
    /\ Len(issued) = 3
    /\ \A i \in 1..3 : issued[i].by = "hashed"
    /\ issued[1].x = Hi /\ issued[2].x = Boo /\ issued[3].x = Hi
    /\ issued[1].untyped =
           Str(<<"0", "0", "0", "0", "0", "0", "0", "0", "0", "0", "0", "0",
                 "0", "1", "7", "f", "n", "i", "b", "s", "j", "2", "4", "g",
                 "i", "0">>)
    /\ issued[1].id = issued[3].id
    /\ issued[1].id # issued[2].id

\* C25: parsing a typed identifier returns InvalidPrefix, and does not panic,
\* when the input is shorter than the prefix and the divider or does not
\* start with the prefix of the entity.
C25_InvalidPrefixWithoutPanic ==
    (/\ outcome.parser = "typed"
     /\ \/ Len(text) < Len(EntityPREFIX(outcome.E)) + Len(DividerStr)
        \/ ~StartsWith(text, EntityPREFIX(outcome.E)))
        => outcome.res = Err("InvalidPrefix")

\* What follows the prefix and the divider of entity E in s.
BodyOf(E, s) == SubSeq(s, Len(EntityPREFIX(E)) + Len(DividerStr) + 1, Len(s))

\* C26: parsing a typed identifier from an input that starts with the prefix
\* returns Unparseable, and neither succeeds nor panics, when the divider
\* does not follow the prefix and when the body is empty, cut short, too
\* long or holds a byte that is no base-32 symbol.
C26_UnparseableWithoutPanic ==
    (/\ outcome.parser = "typed"
     /\ StartsWith(text, EntityPREFIX(outcome.E))
     /\ Len(text) > Len(EntityPREFIX(outcome.E))
     /\ \/ ~StartsWith(text, EntityPREFIX(outcome.E) \o DividerStr)
        \/ Len(BodyOf(outcome.E, text)) # ENCODED_BARE_ID_LEN
        \/ \E k \in 1..Len(BodyOf(outcome.E, text)) :
               SymbolValue(BodyOf(outcome.E, text)[k]) = -1)
        => outcome.res = Err("Unparseable")

\* C27: parsing an untyped identifier fails for every input that is not 26
\* bytes long and for every input that holds the divider, the display of a
\* typed identifier among them, and succeeds on the display of an untyped
\* identifier.
C27_UntypedParseRejectsTyped ==
    outcome.parser = "untyped" =>
        /\ Len(text) # 26 => outcome.res.tag = "Err"
        /\ (\E k \in 1..Len(text) : <<text[k]>> = DividerStr) =>
               outcome.res.tag = "Err"
        /\ (~tampered /\ shown.form = "typed") => outcome.res.tag = "Err"
        /\ (~tampered /\ shown.form = "untyped") => outcome.res = Ok(shown.u)

\* The display of a typed identifier given to the untyped parser.
C27_Witness ==
    /\ outcome.parser = "untyped"
    /\ ~tampered
    /\ shown.form = "typed"
    /\ shown.E = "Canary"
    /\ Len(text) = 33
    /\ outcome.res = Err("Unparseable")

\* C28: a typed identifier displays as the prefix of its entity, the
\* divider, and the 26 bytes its untyped value displays as.
C28_TypedDisplayIsPrefixDividerBody ==
    (~tampered /\ shown.form = "typed") =>
        /\ text = EntityPREFIX(shown.E) \o <<Code(".")>> \o UntypedToString(shown.u)
        /\ Len(text) = Len(EntityPREFIX(shown.E)) + 1 + 26

\* An identifier of the entity with the long prefix, displayed.
C28_Witness ==
    /\ ~tampered
    /\ shown.form = "typed"
    /\ shown.E = "Long"
    /\ Len(text) = 57
    /\ text[31] = Code(".")

\* C29: to_bytes is the stamp and then the random part, eight big-endian
\* bytes each; the display is 26 bytes long; and a < b exactly when the
\* bytes of a are less than those of b, exactly when the display of a is
\* less than that of b.
C29_BytesAndTextKeepTheOrder ==
    \A i, j \in 1..Len(issued) :
        LET a == issued[i]
            b == issued[j]
        IN  /\ Len(a.bytes) = 16
            /\ BytesToBits(SubSeq(a.bytes, 1, 8)) = a.id.inner.stamp
            /\ BytesToBits(SubSeq(a.bytes, 9, 16)) = a.id.inner.random
            /\ Len(a.untyped) = 26
            /\ IdLess(a.id, b.id) <=> BytesLess(a.bytes, b.bytes)
            /\ IdLess(a.id, b.id) <=> BytesLess(a.untyped, b.untyped)

\* Stamp 1 issued before stamp 256: the big-endian bytes order them so.
C29_Witness ==
    /\ BothGenerated(1, 2)
    /\ issued[1].id.inner.stamp = U64(0, 0, 0, 1)
    /\ issued[2].id.inner.stamp = U64(0, 0, 0, 256)
    /\ issued[1].bytes[8] = 1 /\ issued[2].bytes[7] = 1
    /\ BytesLess(issued[1].untyped, issued[2].untyped)

\* C30: equality, order and hash of typed identifiers are those of their
\* untyped values, and from_untyped and untyped, typed and untyped, undo
\* each other.
C30_TypedIsItsUntypedValue ==
    \A i, j \in 1..Len(issued) :
        LET a == issued[i].id
            b == issued[j].id
        IN  /\ IdEq(a, b) <=> Untyped(a) = Untyped(b)
            /\ IdLess(a, b) <=> UntypedLess(Untyped(a), Untyped(b))
            /\ IdHash(a) = UntypedHash(Untyped(a))
            /\ (IdHash(a) = IdHash(b)) <=> Untyped(a) = Untyped(b)
            /\ FromUntyped(a.phantom, Untyped(a)) = a
            /\ \A E \in Entities : Untyped(Typed(E, Untyped(a))) = Untyped(a)

\* Two identifiers with the same stamp and different random parts.
C30_Witness ==
    /\ BothGenerated(1, 2)
    /\ issued[1].id.inner.stamp = issued[2].id.inner.stamp
    /\ issued[1].id.inner.random # issued[2].id.inner.random
    /\ ~IdEq(issued[1].id, issued[2].id)

\* ------------------------------------------------------- the Polls claims
\* The votes of the stored poll i, and its stored versions.
VotesIn(rows, i) ==
    {VotesFromJson(r.body.votes)[1] : r \in RowsFor(rows, IdToString(i))}
VersionsIn(rows, i) == {r.body.version : r \in RowsFor(rows, IdToString(i))}
StoredVotes(i) == VotesIn(documents, i)
PollVersions(i) == VersionsIn(documents, i)

\* Instance w is in a RecordVote call, and its call returns in this step.
InRecordVote(w) == call[w].op = "RecordVote"
Returns(w) == reply'[w] # reply[w] \/ (call[w] # NoCall /\ call'[w] = NoCall)

\* C31: a RecordVote call on an existing poll begins with the load of the
\* poll by its id, then puts the vote into the loaded copy and stores
\* nothing, then saves that copy, then returns; no statement of a save runs
\* at another point of the call; it returns Ok only in the step its save
\* commits, returns the save's ConcurrencyError in the step the save fails,
\* with no second attempt, and the commit raises the stored version by 1.
C31_RecordVoteLoadsAppliesSaves ==
    [][\A w \in Writers :
        /\ (~InRecordVote(w) /\ InRecordVote(w)')
           => /\ call'[w].stage = "apply"
              /\ result'[w] = Ret("load", "Some")
              /\ doc'[w][1].id = call'[w].poll
              /\ RowOf(doc'[w][1]) \in documents
              /\ documents' = documents
        /\ (InRecordVote(w) /\ call[w].stage = "apply" /\ call'[w] # call[w])
           => /\ call'[w] = [call[w] EXCEPT !.stage = "save"]
              /\ doc'[w][1].votes[call[w].subject] = call[w].choice
              /\ doc'[w][1].version = doc[w][1].version
              /\ documents' = documents /\ pc'[w] = "idle"
              /\ reply'[w] = reply[w]
        /\ (InRecordVote(w) /\ pc'[w] # pc[w]) => call[w].stage = "save"
        /\ (InRecordVote(w) /\ call[w].stage = "save" /\ Returns(w))
           => /\ pc[w] # "idle" \/ result'[w].res = "StorageError"
              /\ pc'[w] = "idle"
              /\ call'[w] = NoCall
              /\ reply'[w] = Reply("RecordVote", result'[w].res, <<>>)
              /\ reply'[w].res = "Ok" <=> CommitStep(w)
        /\ (InRecordVote(w) /\ SaveErrorStep(w)
                /\ result'[w].res = "ConcurrencyError")
           => /\ reply'[w] = Reply("RecordVote", "ConcurrencyError", <<>>)
              /\ call'[w] = NoCall
              /\ documents' = documents
        /\ (InRecordVote(w) /\ CommitStep(w))
           => \E v \in 1..MaxVersionFaults :
                  /\ VersionsIn(documents, call[w].poll) = {v}
                  /\ VersionsIn(documents', call[w].poll) = {v + 1}
      ]_vars

\* One instance's RecordVote has returned Ok and the other's, begun from the
\* same stored version, ConcurrencyError; the stored version is 2.
C31_Witness ==
    \E w \in Writers, u \in Writers :
        /\ reply[w] = Reply("RecordVote", "Ok", <<>>)
        /\ reply[u] = Reply("RecordVote", "ConcurrencyError", <<>>)
        /\ PollVersions("p") = {2}
        /\ doc[w][1].version = 2 /\ doc[u][1].version = 2

\* The sum of the counts of a tally.
RECURSIVE TallySum(_)
TallySum(tally) ==
    IF DOMAIN tally = {} THEN 0
    ELSE LET c == CHOOSE x \in DOMAIN tally : TRUE
         IN  tally[c] + TallySum([x \in DOMAIN tally \ {c} |-> tally[x]])

\* Instance w's TallyVotes returns its tally in this step.
TallyReturns(w) ==
    /\ call[w].op = "TallyVotes"
    /\ reply'[w] # reply[w]
    /\ reply'[w].res = "Ok"

\* C32: the stored poll holds, for every subject with a saved vote, the
\* choice of the last vote saved for it and nothing else, a poll just
\* created holds none; and TallyVotes returns, of the poll it loaded, for
\* every choice held the number of subjects that hold it, the counts adding
\* up to the number of subjects that have voted.
C32_LastVotePerSubjectIsTallied ==
    [][/\ \A i \in PollIds : VotesIn(documents', i) \subseteq {cast'[i]}
       /\ \A w \in Writers :
            /\ (call[w].op = "CreatePoll" /\ CommitStep(w))
               => VotesIn(documents', call[w].poll) = {NoVotes}
            /\ (call[w] = NoCall /\ call'[w].op = "TallyVotes")
               => doc'[w][1].votes = cast[call'[w].poll]
            /\ TallyReturns(w)
               => LET votes == doc[w][1].votes
                      tally == reply'[w].tally
                  IN  /\ DOMAIN tally \subseteq Choices
                      /\ \A c \in Choices :
                            Cardinality({s \in DOMAIN votes : votes[s] = c})
                                = IF c \in DOMAIN tally THEN tally[c] ELSE 0
                      /\ TallySum(tally) = Cardinality(DOMAIN votes)
                      /\ votes = NoVotes => tally = <<>>
      ]_vars

\* s1 voted Banana through one instance and then Chocolate through the
\* other; a tally has returned one vote, for Chocolate.
C32_Witness ==
    \E w \in Writers, u \in Writers :
        /\ reply[u] = Reply("RecordVote", "Ok", <<>>)
        /\ reply[w] = Reply("TallyVotes", "Ok", "Chocolate" :> 1)
        /\ call[u] = NoCall
        /\ doc[u][1].version = 2
        /\ doc[u][1].votes = ("s1" :> "Banana")
        /\ doc[w][1].version = 3
        /\ PollVersions("p") = {3}
        /\ StoredVotes("p") = {"s1" :> "Chocolate"}

\* The stored bodies of the poll instance w holds in memory.
StoredBodies(w) == {r.body : r \in RowsFor(documents, KeyOf(w))}

\* C33: of two instances in RecordVote on one poll, a call succeeds only
\* when the stored poll is still the one it loaded, and its commit stores
\* that poll with its vote put in: every vote stored before is kept unless
\* it is the same subject's; two calls that loaded the same version never
\* both succeed; the call that fails gets ConcurrencyError, after another
\* call's commit replaced the poll it loaded, and stores nothing.
C33_ConcurrentVotesNeverClobber ==
    [][\A w \in Writers :
        /\ (InRecordVote(w) /\ CommitStep(w))
           => /\ base[w] # None
              /\ StoredBodies(w) = {base[w][1]}
              /\ <<KeyOf(w), cur[w]>> \notin wins
              /\ VotesIn(documents', call[w].poll) =
                     {(call[w].subject :> call[w].choice)
                          @@ VotesFromJson(base[w][1].votes)[1]}
              /\ reply'[w] = Reply("RecordVote", "Ok", <<>>)
        /\ (InRecordVote(w) /\ Returns(w) /\ ~CommitStep(w))
           => /\ reply'[w] = Reply("RecordVote", "ConcurrencyError", <<>>)
              /\ documents' = documents
              /\ base[w][1] \notin StoredBodies(w)
              /\ <<KeyOf(w), cur[w]>> \in wins
        /\ \A u \in Writers \ {w} :
              (/\ reply'[w] = Reply("RecordVote", "Ok", <<>>)
               /\ reply'[u] = Reply("RecordVote", "Ok", <<>>)
               /\ call'[w] = NoCall /\ call'[u] = NoCall)
              => /\ doc'[w][1].version # doc'[u][1].version
                 /\ \A s \in DOMAIN doc'[w][1].votes \cup DOMAIN doc'[u][1].votes :
                        \A votes \in VotesIn(documents', "p") : s \in DOMAIN votes
      ]_vars

\* Both instances loaded version 1; s1's Banana was saved and s2's Chocolate
\* failed with ConcurrencyError: the stored poll holds s1's vote alone.
C33_Witness ==
    \E w \in Writers, u \in Writers :
        /\ reply[w] = Reply("RecordVote", "Ok", <<>>)
        /\ reply[u] = Reply("RecordVote", "ConcurrencyError", <<>>)
        /\ call[w] = NoCall /\ call[u] = NoCall
        /\ doc[w][1].votes = ("s1" :> "Banana")
        /\ doc[u][1].votes = ("s2" :> "Chocolate")
        /\ doc[u][1].version = 2
        /\ PollVersions("p") = {2}
        /\ StoredVotes("p") = {"s1" :> "Banana"}

\* The rows of a table agree with their bodies: no two rows have one id, and
\* the id column of a row is the _id of its body.
KeyedByBody(rows) ==
    /\ \A r \in rows : r.id = r.body.id
    /\ \A r1 \in rows, r2 \in rows : r1.id = r2.id => r1 = r2

\* C34: the store holds at most one row per id, the id column of every row
\* is the _id inside its body, also in what a transaction has written and
\* not yet committed, and an UPDATE writes exactly when the _version inside
\* the stored body of the row of that id is the version expected.
C34_KeyAndBodyAgree ==
    [][/\ KeyedByBody(documents')
       /\ \A w \in Writers :
            /\ pending'[w] # None => KeyedByBody(pending'[w][1].new)
            /\ (ExecStepNoFault(w) /\ ~TakesInsertBranch(cur[w]))
               => /\ pc'[w] = "exec"
                     <=> \E r \in documents :
                            /\ r.id = KeyOf(w)
                            /\ r.body.id = KeyOf(w)
                            /\ r.body.version = cur[w]
                  /\ pc'[w] = "exec"
                     => /\ pending'[w][1].old =
                              {r \in documents : r.body.id = KeyOf(w)}
                        /\ {r.body : r \in pending'[w][1].new} = {ToJson(doc[w][1])}
      ]_vars

\* The table holds a poll, updated by a vote, and a subject: two
\* CreateSubject with one identifier raced, one is stored under the _id of
\* its body and the other failed on the key.
C34_Witness ==
    \E w \in Writers, u \in Writers :
        /\ w # u
        /\ reply[w] = Reply("CreateSubject", "Ok", <<>>)
        /\ reply[u] = Reply("CreateSubject", "UniqueViolation", <<>>)
        /\ call[w] = NoCall /\ call[u] = NoCall
        /\ RowsFor(documents, IdToString("s1")) = {RowOf(doc[w][1])}
        /\ doc[w][1].version = 1
        /\ PollVersions("p") = {2}
        /\ Cardinality(documents) = 2

\* Instance w's last RecordVote failed with ConcurrencyError and the caller
\* has called again: the poll is loaded anew and the vote put into that
\* copy; and no other instance has committed a save of the poll since.
Retrying(w) ==
    /\ reply[w] = Reply("RecordVote", "ConcurrencyError", <<>>)
    /\ InRecordVote(w)
    /\ call[w].stage = "save"
UnchangedSinceLoad(w) == base[w] # None /\ StoredBodies(w) = {base[w][1]}

\* C35: after a save failed with ConcurrencyError, the save of a copy loaded
\* anew with the change made again succeeds when no other writer commits a
\* save of the document between that load and that save: its statement
\* writes, its commit stores the copy and it returns Ok.
C35_RetryAfterReloadSucceeds ==
    [][\A w \in Writers :
        (Retrying(w) /\ UnchangedSinceLoad(w))
        => /\ ExecStep(w) => pc'[w] = "exec"
           /\ Returns(w)
              => /\ reply'[w] = Reply("RecordVote", "Ok", <<>>)
                 /\ documents' = {RowOf(doc[w][1])}
                 /\ doc[w][1].votes[call[w].subject] = call[w].choice
      ]_vars

\* The second attempt of s2's Chocolate, on the poll loaded anew with s1's
\* vote in it, has written and is about to commit.
C35_Witness ==
    \E w \in Writers :
        /\ Retrying(w)
        /\ UnchangedSinceLoad(w)
        /\ pc[w] = "exec"
        /\ cur[w] = 2
        /\ doc[w][1].votes = ("s1" :> "Banana") @@ ("s2" :> "Chocolate")
        /\ PollVersions("p") = {2}

\* The key of the document the writers race on.
RaceKey == IdToString("x")

\* Every writer is inside a save of document x that read, as its
\* current_version, the version v that is stored.
Racing(v) ==
    /\ {r.body.version : r \in RowsFor(documents, RaceKey)} = {v}
    /\ \A w \in Writers : pc[w] = "tx" /\ cur[w] = v /\ IdToString(doc[w][1].id) = RaceKey

\* C36: writers saving, at once, copies that carry the stored version of one
\* existing document: without transport errors every one of the saves
\* returns, one of them has succeeded, and the stored version has advanced.
C36_RacingSavesEndAndOneWins ==
    \A v \in 1..(MaxVersionRace - 1) :
        /\ \A w \in Writers :
              (Racing(v) /\ result[w] = Ret("save", "Running"))
              ~> (pc[w] = "idle" /\ result[w].op = "save"
                  /\ result[w].res \in {"Ok", "ConcurrencyError"})
        /\ Racing(v)
           ~> /\ <<RaceKey, v>> \in wins
              /\ \A r \in RowsFor(documents, RaceKey) : r.body.version > v
              /\ RowsFor(documents, RaceKey) # {}

\* Both writers opened their save on version 1: the statement of one has
\* written and holds the row, the other's waits for it.
C36_Witness ==
    \E w, u \in Writers :
        /\ w # u
        /\ pc[w] = "exec" /\ pc[u] = "tx"
        /\ cur[w] = 1 /\ cur[u] = 1
        /\ pending[w] # None /\ pending[w][1].kind = "update"
        /\ {r.body.version : r \in RowsFor(documents, RaceKey)} = {1}
        /\ RowsFor(documents, RaceKey) \subseteq LockedRows(u)

\* Instance w's load, made for a RecordVote or a TallyVotes, finds no row or
\* fails.
FailedLoad(w) ==
    /\ call[w] = NoCall
    /\ result'[w].op = "load"
    /\ result'[w].res \in {"None", "StorageError"}
    /\ <<result[w], reply[w], call[w]>> # <<result'[w], reply'[w], call'[w]>>

\* C37: a RecordVote or a TallyVotes for a poll id without a stored row
\* returns an error, and so does a call whose load fails; neither performs a
\* save: the store, the transactions and the caller's document are left as
\* they were. A call gets past its load only with the poll it loaded, and no
\* row exists for a poll id that CreatePoll has not made.
C37_MissingPollIsAnErrorWithoutSave ==
    [][/\ \A w \in Writers :
            /\ FailedLoad(w)
               => /\ call'[w] = NoCall
                  /\ reply'[w].op \in {"RecordVote", "TallyVotes"}
                  /\ reply'[w].res =
                        (IF result'[w].res = "None" THEN "Missing" ELSE "StorageError")
                  /\ documents' = documents
                  /\ pending' = pending
                  /\ pc' = pc
                  /\ wins' = wins
                  /\ doc' = doc
            /\ call'[w].op \in {"RecordVote", "TallyVotes"}
               => /\ base'[w] # None
                  /\ base'[w][1].id = IdToString(call'[w].poll)
       /\ \A i \in PollIds : RowsFor(documents', IdToString(i)) # {} => i \in made'
      ]_vars

\* Poll p is stored; one instance was told that a poll is missing, the load
\* of the other's RecordVote failed, and poll q has no row.
C37_Witness ==
    \E w, u \in Writers :
        /\ w # u
        /\ reply[w] = Reply("RecordVote", "Missing", <<>>)
        /\ result[w] = Ret("load", "None")
        /\ reply[u] = Reply("RecordVote", "StorageError", <<>>)
        /\ result[u] = Ret("load", "StorageError")
        /\ RowsFor(documents, IdToString("q")) = {}
        /\ RowsFor(documents, IdToString("p")) # {}
        /\ \A x \in Writers : pc[x] = "idle" /\ pending[x] = None

\* A step of instance w inside a TallyVotes: its load, or the tally of the
\* poll it loaded.
TallyStep(w) ==
    /\ \/ call[w].op = "TallyVotes"
       \/ call'[w].op = "TallyVotes"
       \/ FailedLoad(w) /\ reply'[w].op = "TallyVotes"
    /\ <<call[w], reply[w], result[w], doc[w], pc[w]>>
           # <<call'[w], reply'[w], result'[w], doc'[w], pc'[w]>>

\* C38: TallyVotes only reads: none of its steps changes a stored row, opens
\* a transaction or writes, and what it returns on success is the tally of
\* the poll it loaded. So it takes no part in a RecordVote's failure: every
\* commit is made by a CreatePoll, a CreateSubject or a RecordVote, and a RecordVote that
\* returns ConcurrencyError lost its version to one of those commits.
C38_TallyVotesOnlyReads ==
    [][\A w \in Writers :
        /\ TallyStep(w)
           => /\ documents' = documents
              /\ pending' = pending
              /\ pc' = pc
              /\ wins' = wins
              /\ \A i \in PollIds : VersionsIn(documents', i) = VersionsIn(documents, i)
              /\ reply'[w].res = "Ok" /\ call'[w] = NoCall
                 => reply'[w].tally = PollTallyVotes(VotesFromJson(base[w][1].votes)[1])
        /\ call'[w].op = "TallyVotes"
           => /\ pc'[w] = "idle"
              /\ pending'[w] = None
        /\ (documents' # documents \/ wins' # wins)
           => \E u \in Writers :
                 /\ call[u].op \in {"CreatePoll", "CreateSubject", "RecordVote"}
                 /\ call[u].stage = "save"
                 /\ pc[u] = "exec"
                 /\ wins' = wins \cup {<<KeyOf(u), cur[u]>>}
        /\ (InRecordVote(w) /\ reply'[w] = Reply("RecordVote", "ConcurrencyError", <<>>)
              /\ call'[w] = NoCall)
           => <<KeyOf(w), cur[w]>> \in wins
      ]_vars

\* One instance tallied poll p at version 2 while the other's second
\* RecordVote went on to version 3 and returned Ok.
C38_Witness ==
    \E w, u \in Writers :
        /\ w # u
        /\ reply[w] = Reply("TallyVotes", "Ok", "Banana" :> 1)
        /\ reply[u] = Reply("RecordVote", "Ok", <<>>)
        /\ call[w] = NoCall /\ call[u] = NoCall
        /\ doc[w][1].version = 2
        /\ doc[u][1].version = 3
        /\ PollVersions("p") = {3}
        /\ StoredVotes("p") = {("s1" :> "Banana") @@ ("s2" :> "Chocolate")}
====
